---------------------------- MODULE Spec2Model ----------------------------
(***************************************************************************)
(* Verification model of the location-scoring backend (location_analysis). *)
(*                                                                         *)
(* Part I   - profile scoring engine and verdict generator                 *)
(*            (scoring/profiles.py, scoring/profile_engine.py,             *)
(*             scoring/profile_verdict.py).                                *)
(* Part II  - hybrid POI provider: open-map base layer, commercial         *)
(*            fallback, enrichment, dedupe, global merge, final filters    *)
(*            (geo/overpass_client.py, geo/google_places_client.py,        *)
(*             geo/hybrid_poi_provider.py, geo/poi_filter.py).             *)
(* Part III - POI caching in the analysis service (services.py, cache.py). *)
(*                                                                         *)
(* Numbers.  Python floats are modelled by exact integers:                 *)
(*   - profile weights are kept in hundredths (0.25 -> 25);                *)
(*   - a total score of profile p is kept multiplied by ScoreScale(p), so  *)
(*     that the weighted mean, the noise penalty and the roads penalty are *)
(*     all integers and every comparison of the code is exact;             *)
(*   - classification scores are kept in tenths (1.0 -> 10, 0.6 -> 6);     *)
(*   - ratings are kept in tenths (4.4 -> 44);                             *)
(*   - quality multipliers, contributions and utility sums are exact       *)
(*     integers of the units QualityUnit and ContributionUnit;             *)
(*   - math.exp is computed in fixed point with 8 decimals, and a category *)
(*     score is kept in hundredths, rounded down: it is within 0.01 of the *)
(*     float the code computes, and exactly 0 when the code's is 0.0.      *)
(* Geometry.  All places lie on one meridian and a coordinate is the arc   *)
(* length in metres along it, so the haversine distance of two points is   *)
(* the absolute difference of their coordinates.                           *)
(***************************************************************************)
EXTENDS Integers, Sequences, FiniteSets, TLC

VARIABLES
    \* ---- Part I: scoring ------------------------------------------------
    score_pc,          \* "idle" | "scored" | "judged"
    scoring_result,    \* the ScoringResult of the last calculate(), or NoResult
    verdict_out,       \* the Verdict of the last generate(), or NoVerdict
    \* ---- Part II: hybrid provider ---------------------------------------
    pc,                \* position inside get_pois_hybrid / the service
    world,             \* what the two providers hold (deterministic providers)
    faults,            \* which provider calls fail during this request
    req,               \* arguments of the running request
    pois,              \* Dict[str, List[POI]]: category -> sequence of object ids
    poi_heap,          \* object id -> POI object
    tag_heap,          \* tags-dict id -> tags dict (dicts are shared by reference)
    attempt,           \* retry counter of OverpassClient.get_pois_around
    endpoint_idx,      \* OverpassClient._current_endpoint_idx
    base_ok,           \* whether the base fetch produced a parsed answer
    nearby_cache,      \* cache.google_nearby_cache
    details_cache,     \* cache.google_details_cache
    overpass_cache,    \* cache.overpass_cache
    calls,             \* commercial-adapter calls issued in this request
    returned,          \* the map handed back to the caller of _get_pois
    served,            \* number of requests served so far
    \* ---- single calls of the scoring functions ---------------------------
    fn_in,             \* the function called and its arguments
    fn_out,            \* what it returned, or NoCall before the call
    \* ---- Part V: the profile registry and the stored report --------------
    profile_heap,      \* object id -> ProfileConfig (fields hold object ids)
    dict_heap,         \* object id -> the dict, list or thresholds it holds
    engines,           \* the ProfileScoringEngine objects created so far
    analysis,          \* the LocationAnalysis row in the database
    requests           \* request id -> a running POST .../rescore/

vars == <<score_pc, scoring_result, verdict_out, pc, world, faults, req, pois,
          poi_heap, tag_heap, attempt, endpoint_idx, base_ok, nearby_cache,
          details_cache, overpass_cache, calls, returned, served, fn_in, fn_out,
          profile_heap, dict_heap, engines, analysis, requests>>

scoreVars == <<score_pc, scoring_result, verdict_out, fn_in, fn_out>>

hybridVars == <<pc, world, faults, req, pois, poi_heap, tag_heap, attempt,
                endpoint_idx, base_ok, nearby_cache, details_cache,
                overpass_cache, calls, returned, served>>

registryVars == <<profile_heap, dict_heap, engines>>

rescoreVars == <<analysis, requests>>

serviceVars == <<registryVars, rescoreVars>>

None == "None"

\* Python None in a numeric position (an absent distance, rating, count)
NoNum == -1

Min(a, b) == IF a <= b THEN a ELSE b

Max(a, b) == IF a >= b THEN a ELSE b

Abs(a) == IF a < 0 THEN -a ELSE a

Range(s) == {s[i] : i \in 1..Len(s)}

SeqContains(s, x) == \E i \in 1..Len(s) : s[i] = x

\* Python truthiness of an optional number
TruthyNum(x) == x # NoNum /\ x # 0

\* a or b, for optional numbers
OrNum(a, b) == IF TruthyNum(a) THEN a ELSE b

\* a or b, for optional strings
OrStr(a, b) == IF a # None /\ a # "" THEN a ELSE b

(***************************************************************************)
(*                    PART I  -  PROFILES AND SCORING                      *)
(***************************************************************************)

\* profiles.py Category (enum order)
CategoryOrder ==
    << "shops", "transport", "education", "health", "nature_place",
       "nature_background", "leisure", "food", "finance", "noise", "car_access" >>

Category == Range(CategoryOrder)

ProfileKeys ==
    {"urban", "family", "quiet_green", "remote_work", "active_sport",
     "car_first", "investor"}

\* profiles.py PROFILE_URBAN .. PROFILE_INVESTOR; weights in hundredths
PROFILE_REGISTRY ==
    [ urban |->
        [ key |-> "urban",
          weights |-> [transport |-> 25, food |-> 18, shops |-> 16, leisure |-> 12,
                       health |-> 8, finance |-> 5, nature_place |-> 6,
                       nature_background |-> 3, education |-> 2, noise |-> -3],
          radius_m |-> [transport |-> 700, food |-> 800, shops |-> 600,
                        leisure |-> 800, health |-> 1200, finance |-> 800,
                        nature_place |-> 900, nature_background |-> 450,
                        education |-> 900],
          thresholds |-> [recommended |-> 65, conditional |-> 45],
          critical_caps |-> << [category |-> "transport", threshold |-> 35, cap |-> 65],
                               [category |-> "food", threshold |-> 25, cap |-> 75] >> ],
      family |->
        [ key |-> "family",
          weights |-> [education |-> 25, health |-> 16, nature_place |-> 16,
                       shops |-> 14, transport |-> 10, leisure |-> 8,
                       nature_background |-> 6, food |-> 3, finance |-> 2,
                       noise |-> -4],
          radius_m |-> [education |-> 1200, health |-> 1500, nature_place |-> 900,
                        shops |-> 700, transport |-> 900, leisure |-> 700,
                        nature_background |-> 450, food |-> 700, finance |-> 900],
          thresholds |-> [recommended |-> 65, conditional |-> 45],
          critical_caps |-> << [category |-> "education", threshold |-> 35, cap |-> 70],
                               [category |-> "nature_place", threshold |-> 30, cap |-> 75] >> ],
      quiet_green |->
        [ key |-> "quiet_green",
          weights |-> [nature_place |-> 22, nature_background |-> 20, noise |-> -12,
                       shops |-> 12, transport |-> 8, health |-> 10, leisure |-> 10,
                       food |-> 5, education |-> 5, finance |-> 3],
          radius_m |-> [nature_place |-> 1200, nature_background |-> 500,
                        shops |-> 900, transport |-> 1200, health |-> 2000,
                        leisure |-> 1200, food |-> 1200, education |-> 1500,
                        finance |-> 1000],
          thresholds |-> [recommended |-> 65, conditional |-> 45],
          critical_caps |-> << [category |-> "noise", threshold |-> 40, cap |-> 60],
                               [category |-> "nature_background", threshold |-> 35, cap |-> 75] >> ],
      remote_work |->
        [ key |-> "remote_work",
          weights |-> [noise |-> -10, shops |-> 18, health |-> 14,
                       nature_background |-> 12, nature_place |-> 10,
                       transport |-> 10, food |-> 8, leisure |-> 10,
                       education |-> 3, finance |-> 5],
          radius_m |-> [shops |-> 700, health |-> 1500, nature_background |-> 450,
                        nature_place |-> 900, transport |-> 1000, food |-> 900,
                        leisure |-> 900, education |-> 1200, finance |-> 800],
          thresholds |-> [recommended |-> 65, conditional |-> 45],
          critical_caps |-> << [category |-> "noise", threshold |-> 45, cap |-> 70] >> ],
      active_sport |->
        [ key |-> "active_sport",
          weights |-> [leisure |-> 22, nature_place |-> 18, nature_background |-> 14,
                       shops |-> 12, health |-> 10, transport |-> 8, food |-> 6,
                       noise |-> -5, finance |-> 5, education |-> 0],
          radius_m |-> [leisure |-> 1200, nature_place |-> 1200,
                        nature_background |-> 500, shops |-> 800, transport |-> 1000,
                        health |-> 1800, food |-> 900, finance |-> 1000,
                        education |-> 1500],
          thresholds |-> [recommended |-> 65, conditional |-> 45],
          critical_caps |-> << >> ],
      car_first |->
        [ key |-> "car_first",
          weights |-> [car_access |-> 20, noise |-> -8, shops |-> 16, health |-> 12,
                       nature_place |-> 10, nature_background |-> 10, leisure |-> 10,
                       transport |-> 6, education |-> 10, food |-> 4, finance |-> 2],
          radius_m |-> [shops |-> 1200, health |-> 2500, education |-> 2000,
                        transport |-> 1500, nature_place |-> 1500,
                        nature_background |-> 600, leisure |-> 1500, food |-> 1200,
                        finance |-> 1200, car_access |-> 1000],
          thresholds |-> [recommended |-> 65, conditional |-> 45],
          critical_caps |-> << [category |-> "car_access", threshold |-> 35, cap |-> 70] >> ],
      investor |->
        [ key |-> "investor",
          weights |-> [transport |-> 25, shops |-> 18, education |-> 15, food |-> 12,
                       health |-> 8, finance |-> 8, leisure |-> 6, nature_place |-> 4,
                       nature_background |-> 2, noise |-> -2],
          radius_m |-> [transport |-> 800, shops |-> 700, education |-> 1500,
                        food |-> 900, health |-> 1500, finance |-> 800,
                        leisure |-> 1000, nature_place |-> 1200,
                        nature_background |-> 500],
          thresholds |-> [recommended |-> 60, conditional |-> 40],
          critical_caps |-> << [category |-> "transport", threshold |-> 30, cap |-> 65] >> ] ]

\* ProfileConfig.get_weight
get_weight(profile, category) ==
    IF category \in DOMAIN profile.weights THEN profile.weights[category] ELSE 0

\* dict.get(key, default)
DictGet(d, k, default) == IF k \in DOMAIN d THEN d[k] ELSE default

RECURSIVE SumSeq(_, _)
SumSeq(f, s) == IF s = << >> THEN 0 ELSE f[Head(s)] + SumSeq(f, Tail(s))

\* the categories of a dict in enum order (iteration order never matters for a sum)
KeysInOrder(d) == SelectSeq(CategoryOrder, LAMBDA c : c \in DOMAIN d)

\* calculate(): total_positive_weight, in hundredths
TotalPositiveWeight(profile) ==
    SumSeq([c \in DOMAIN profile.weights |->
                IF profile.weights[c] > 0 THEN profile.weights[c] ELSE 0],
           KeysInOrder(profile.weights))

\* a score x of profile p is stored as x * ScoreScale(p)
ScoreScale(profile) ==
    IF TotalPositiveWeight(profile) > 0 THEN 1000 * TotalPositiveWeight(profile)
    ELSE 1000

MAX_BASE_ADJUSTMENT == 20

\* VerdictThresholds.get_verdict, score scaled by s
get_verdict(thresholds, score, s) ==
    IF score >= thresholds.recommended * s THEN "recommended"
    ELSE IF score >= thresholds.conditional * s THEN "conditional"
    ELSE "not_recommended"


\* profiles.py DecayMode
DecayModes == {"daily", "destination", "background"}

\* profiles.py DEFAULT_DECAY_MODES
DEFAULT_DECAY_MODES ==
    [shops |-> "daily", transport |-> "daily", education |-> "destination",
     health |-> "destination", nature_place |-> "destination",
     nature_background |-> "background", leisure |-> "destination",
     food |-> "destination", finance |-> "daily", car_access |-> "destination"]

\* distance_score whose cut-off forgets the radius itself (d > r)
distance_score_open(distance_m, max_radius_m, mode) ==
    IF distance_m > max_radius_m THEN 0
    ELSE IF mode = "daily"
    THEN IF 4 * distance_m <= max_radius_m THEN 100
         ELSE IF 2 * distance_m <= max_radius_m THEN 70
         ELSE IF 10 * distance_m <= 8 * max_radius_m THEN 40
         ELSE 15
    ELSE IF mode = "destination"
    THEN IF 10 * distance_m <= 3 * max_radius_m THEN 100
         ELSE IF 10 * distance_m <= 6 * max_radius_m THEN 75
         ELSE IF 10 * distance_m <= 9 * max_radius_m THEN 45
         ELSE 20
    ELSE IF mode = "background"
    THEN IF 10 * distance_m <= 2 * max_radius_m THEN 100
         ELSE IF 10 * distance_m <= 4 * max_radius_m THEN 60
         ELSE IF 10 * distance_m <= 6 * max_radius_m THEN 25
         ELSE 10
    ELSE 0

\* profiles.py distance_score; ratio <= 0.25 is 4 * d <= r, and so on: on
\* distances and radii in whole metres the float comparisons are exact
distance_score(distance_m, max_radius_m, mode) ==
    IF distance_m >= max_radius_m THEN 0
    ELSE IF mode = "daily"
    THEN IF 4 * distance_m <= max_radius_m THEN 100
         ELSE IF 2 * distance_m <= max_radius_m THEN 70
         ELSE IF 10 * distance_m <= 8 * max_radius_m THEN 40
         ELSE 15
    ELSE IF mode = "destination"
    THEN IF 10 * distance_m <= 3 * max_radius_m THEN 100
         ELSE IF 10 * distance_m <= 6 * max_radius_m THEN 75
         ELSE IF 10 * distance_m <= 9 * max_radius_m THEN 45
         ELSE 20
    ELSE IF mode = "background"
    THEN IF 10 * distance_m <= 2 * max_radius_m THEN 100
         ELSE IF 10 * distance_m <= 4 * max_radius_m THEN 60
         ELSE IF 10 * distance_m <= 6 * max_radius_m THEN 25
         ELSE 10
    ELSE 0

\* a quality multiplier m is kept as the integer m * QualityUnit: the rating
\* (tenths) enters as 0.90 + 0.20 * rating / 5 = (900 + 4 * rating10) / 1000
\* and the confidence as n / 200, so every product is a whole number
QualityUnit == 200000

\* _calculate_quality_multiplier: reviews_confidence, in 1/200
reviews_confidence(reviews) ==
    IF TruthyNum(reviews) THEN Min(200, reviews) ELSE 60

\* ProfileScoringEngine._calculate_quality_multiplier
_calculate_quality_multiplier(poi) ==
    LET rating == poi.tags.rating
        reviews == OrNum(poi.tags.user_ratings_total, poi.tags.reviews_count)
        \* rating_mult - 1.0, in thousandths
        rating_mult0 == 4 * rating - 100
        rating_mult == IF poi.tags.low_reviews THEN Min(rating_mult0, 0)
                       ELSE rating_mult0
    IN IF ~TruthyNum(rating) THEN QualityUnit
       ELSE QualityUnit + rating_mult * reviews_confidence(reviews)

(***************************************************************************)
(* The category score.  utility_sum is kept in 1/ContributionUnit (every   *)
(* contribution distance score x quality x nameless weight is a whole      *)
(* number of these); math.exp is evaluated in fixed point with 8 decimals; *)
(* utility_score and score are kept in millionths of a point inside the    *)
(* computation and returned in hundredths, rounded down.                   *)
(***************************************************************************)

\* ProfileConfig.get_radius
get_radius(profile, category) == DictGet(profile.radius_m, category, 1000)

\* profiles.py DEFAULT_PROFILE_KEY
DEFAULT_PROFILE_KEY == "family"

\* the object of a registry profile: the ProfileConfig built when profiles.py
\* is imported.  An object id is a pair (origin, serial); serial 0 belongs to
\* the objects built at import time.
RegistryId(profile_key) == << profile_key, 0 >>

\* the object held by a field of a ProfileConfig (a dict, a list or a
\* VerdictThresholds): the id of the profile it was built for and the field
FieldId(profile_id, field) == << profile_id[1], profile_id[2], field >>

\* the mutable fields of a ProfileConfig the scoring reads
ProfileFields == {"weights", "radius_m", "critical_caps", "thresholds"}

\* profiles.py PROFILE_REGISTRY as objects: every ProfileConfig holds
\* references to its own dicts, list and thresholds
LoadedProfiles ==
    [id \in {RegistryId(k) : k \in ProfileKeys} |->
        [key |-> id[1],
         weights |-> FieldId(id, "weights"),
         radius_m |-> FieldId(id, "radius_m"),
         critical_caps |-> FieldId(id, "critical_caps"),
         thresholds |-> FieldId(id, "thresholds")]]

LoadedDicts ==
    [id \in {FieldId(RegistryId(k), f) : k \in ProfileKeys, f \in ProfileFields} |->
        PROFILE_REGISTRY[id[1]][id[3]]]

\* the ProfileConfig value an object id denotes in a heap
ProfileAt(profiles, dicts, id) ==
    [key |-> profiles[id].key,
     weights |-> dicts[profiles[id].weights],
     radius_m |-> dicts[profiles[id].radius_m],
     critical_caps |-> dicts[profiles[id].critical_caps],
     thresholds |-> dicts[profiles[id].thresholds]]

\* the process after import: the registry is built, no engine exists
RegistryLoaded ==
    /\ profile_heap = LoadedProfiles
    /\ dict_heap = LoadedDicts
    /\ engines = << >>

\* no stored report and no rescore request
NoAnalysis == [public_id |-> None]

NoRescore ==
    /\ analysis = NoAnalysis
    /\ requests = << >>

ServiceIdle == RegistryLoaded /\ NoRescore

\* ProfileConfig.get_decay_mode (no profile of the registry sets decay_modes)
get_decay_mode(profile, category) ==
    DictGet(DEFAULT_DECAY_MODES, category, "destination")

MAX_POIS_FOR_SCORE == 10

COVERAGE_BONUS_3 == 5

COVERAGE_BONUS_6 == 10

DAILY_CATEGORIES == {"shops", "transport", "finance"}

\* NAMELESS_WEIGHT = 0.6, in tenths
NAMELESS_WEIGHT10 == 6

\* MIN_DISTANCE_FACTOR = 0.4, in thousandths
MIN_DISTANCE_FACTOR1000 == 400

\* DEFAULT_SATURATION_K = 0.005, in 1/10000
DEFAULT_SATURATION_K == 50

\* SATURATION_K, in 1/10000
SATURATION_K ==
    [shops |-> 60, transport |-> 65, education |-> 45, health |-> 45,
     nature_place |-> 40, nature_background |-> 35, leisure |-> 45,
     food |-> 35, finance |-> 60]

\* one point of utility_sum
ContributionUnit == 50000

\* 1.0 of the fixed-point numbers of math.exp
ExpOne == 100000000

\* a * b / ExpOne, rounded down, without leaving 32 bits: both factors are
\* split into four-digit halves
MulFixed(a, b) ==
    LET a1 == a \div 10000
        a0 == a % 10000
        b1 == b \div 10000
        b0 == b % 10000
    IN a1 * b1 + (a1 * b0 + a0 * b1) \div 10000 + (a0 * b0) \div ExpOne

\* the series of e^(-y) for 0 <= y < 1 from term n on; term is y^n / n!
RECURSIVE ExpSeries(_, _, _)
ExpSeries(y, term, n) ==
    IF term = 0 \/ n > 14 THEN 0
    ELSE (IF n % 2 = 0 THEN term ELSE -term)
         + ExpSeries(y, MulFixed(term, y) \div (n + 1), n + 1)

RECURSIVE SquareTimes(_, _)
SquareTimes(e, n) == IF n = 0 THEN e ELSE SquareTimes(MulFixed(e, e), n - 1)

\* math.exp(-x) for x >= 0 given in 1/ExpOne: e^(-x) = (e^(-x/16))^16
ExpNeg(x) ==
    IF x >= 16 * ExpOne THEN 0
    ELSE SquareTimes(ExpSeries(x \div 16, ExpOne, 0), 4)

\* a score that grows linearly with the sum of contributions
\* (utility_sum / UTILITY_NORMALIZATION, capped) instead of saturating
_saturating_score_linear(value, k) ==
    IF value <= 0 THEN 0
    ELSE Min(ExpOne, (value * 20) \div 3)

\* ProfileScoringEngine._saturating_score: value in 1/ContributionUnit, k in
\* 1/10000; the result in millionths of a point
_saturating_score(value, k) ==
    IF value <= 0 THEN 0
    ELSE LET x == (value \div 5) * k   \* k * value, in 1/ExpOne
         IN Min(ExpOne, ExpOne - ExpNeg(x))

\* ProfileScoringEngine._distance_factor, in thousandths
_distance_factor(nearest_distance_m, radius, decay_mode) ==
    IF nearest_distance_m = NoNum THEN 0
    ELSE MIN_DISTANCE_FACTOR1000
         + ((1000 - MIN_DISTANCE_FACTOR1000)
               * distance_score(nearest_distance_m, radius, decay_mode)) \div 100

\* sorted(pois, key=lambda p: p.distance_m): stable insertion
InsertPoi(sorted, poi) ==
    LET before == SelectSeq(sorted, LAMBDA p : p.distance_m <= poi.distance_m)
        after == SelectSeq(sorted, LAMBDA p : p.distance_m > poi.distance_m)
    IN before \o << poi >> \o after

RECURSIVE SortedPois(_)
SortedPois(poi_list) ==
    IF poi_list = << >> THEN << >>
    ELSE InsertPoi(SortedPois(SubSeq(poi_list, 1, Len(poi_list) - 1)), poi_list[Len(poi_list)])

\* _calculate_category_score: the POIContribution of one POI; the multiplier
\* quality_mult * nameless_mult is kept in 1/(10 * QualityUnit) and the
\* contribution in 1/ContributionUnit
Contribution(poi, radius, decay_mode) ==
    LET Build(dist_score, quality_mult, nameless_mult) ==
            [distance_m |-> poi.distance_m,
             distance_score |-> dist_score,
             quality_multiplier |-> quality_mult * nameless_mult,
             final_contribution |->
                 (dist_score \div 5) * (quality_mult \div 4) * (nameless_mult \div 2)]
    IN Build(distance_score(poi.distance_m, radius, decay_mode),
             _calculate_quality_multiplier(poi),
             IF poi.tags.nameless THEN NAMELESS_WEIGHT10 ELSE 10)

\* utility_sum: the sum of the contributions
RECURSIVE SumContributions(_)
SumContributions(contributions) ==
    IF contributions = << >> THEN 0
    ELSE Head(contributions).final_contribution
         + SumContributions(Tail(contributions))

\* _calculate_category_score: coverage_bonus, in points
CoverageBonus(category, sorted_pois, radius) ==
    LET sensible == Len(SelectSeq(sorted_pois,
                                  LAMBDA p : 10 * p.distance_m <= 8 * radius))
    IN IF category \notin DAILY_CATEGORIES THEN 0
       ELSE IF sensible >= 6 THEN COVERAGE_BONUS_6
       ELSE IF sensible >= 3 THEN COVERAGE_BONUS_3
       ELSE 0

\* one point of a score kept in millionths
Million == ExpOne \div 100

\* score_before_distance * distance_factor, both factors fixed point; the
\* result in millionths of a point
ScaleByFactor(score_before_distance, distance_factor) ==
    (score_before_distance \div 1000) * distance_factor
        + ((score_before_distance % 1000) * distance_factor) \div 1000

\* _calculate_category_score: the result for a category without content that
\* treats missing data as an average neighbourhood
EmptyCategoryResult_neutral(category, radius) ==
    [category |-> category, score |-> 5000, utility_score |-> 0,
     utility_sum |-> 0, coverage_bonus |-> 0, nearest_distance_m |-> NoNum,
     poi_count |-> 0, radius_used |-> radius, contributions |-> << >>, is_critical |-> FALSE,
     critical_threshold |-> NoNum, critical_cap |-> NoNum]

\* _calculate_category_score: the result for a category without content
EmptyCategoryResult(category, radius) ==
    [category |-> category, score |-> 0, utility_score |-> 0,
     utility_sum |-> 0, coverage_bonus |-> 0, nearest_distance_m |-> NoNum,
     poi_count |-> 0, radius_used |-> radius, contributions |-> << >>, is_critical |-> FALSE,
     critical_threshold |-> NoNum, critical_cap |-> NoNum]

\* no nature_metrics dict (None, or an empty dict: both are falsy)
NoMetrics == [green_density_proxy |-> NoNum]

GreenTypes == {"forest", "wood", "meadow", "grass", "park"}

\* _calculate_nature_background_score: nearest_green; nearest_distances maps
\* the green types it knows to a distance
NearestGreen(nearest_distances) ==
    LET ds == {nearest_distances[t] :
                  t \in {u \in GreenTypes \cap DOMAIN nearest_distances :
                            TruthyNum(nearest_distances[u])}}
    IN IF ds = {} THEN NoNum ELSE CHOOSE d \in ds : \A e \in ds : d <= e

\* ProfileScoringEngine._calculate_nature_background_score; score in
\* hundredths, utility_score in millionths, utility_sum in 1/ContributionUnit
_calculate_nature_background_score(radius, nature_metrics, poi_list) ==
    LET Build(density_score, distance_component100, water_bonus, nearest_green) ==
            [category |-> "nature_background",
             score |-> Min(10000, 100 * density_score + distance_component100
                                     + 100 * water_bonus),
             utility_score |->
                 (100 * density_score + distance_component100) * 10000,
             utility_sum |->
                 (100 * density_score + distance_component100)
                     * (ContributionUnit \div 100),
             coverage_bonus |-> water_bonus,
             nearest_distance_m |-> nearest_green,
             poi_count |-> nature_metrics.total_green_elements,
             radius_used |-> radius,
             contributions |-> << >>, is_critical |-> FALSE,
     critical_threshold |-> NoNum, critical_cap |-> NoNum]
        Water(nearest_water) ==
            IF ~TruthyNum(nearest_water) THEN 0
            ELSE IF nearest_water <= 200 THEN 20
            ELSE IF nearest_water <= 400 THEN 15
            ELSE IF nearest_water <= 600 THEN 10
            ELSE IF nearest_water <= 1000 THEN 5
            ELSE 0
        Density(green_density) ==
            IF green_density >= 15 THEN 50
            ELSE IF green_density >= 8 THEN 35
            ELSE IF green_density >= 3 THEN 20
            ELSE IF green_density >= 1 THEN 10
            ELSE 0
        Component(nearest_green) ==
            IF TruthyNum(nearest_green)
            THEN 30 * distance_score(nearest_green, radius, "background")
            ELSE 0
        WithGreen(nearest_green) ==
            Build(Density(nature_metrics.green_density_proxy),
                  Component(nearest_green),
                  Water(nature_metrics.nearest_water_m),
                  nearest_green)
    IN WithGreen(NearestGreen(nature_metrics.nearest_distances))

\* ProfileScoringEngine._calculate_category_score; score in hundredths
\* (rounded down), utility_score in millionths, utility_sum in
\* 1/ContributionUnit, coverage_bonus in points
_calculate_category_score(profile, category, poi_list, radius, nature_metrics) ==
    LET decay_mode == get_decay_mode(profile, category)
        Finish(sorted_pois, contributions, utility_sum, utility_score, coverage_bonus, nearest_distance) ==
            [category |-> category,
             score |->
                 Min(100 * Million,
                     ScaleByFactor(Min(100 * Million,
                                       utility_score + coverage_bonus * Million),
                                   _distance_factor(nearest_distance, radius,
                                                    decay_mode))) \div 10000,
             utility_score |-> utility_score,
             utility_sum |-> utility_sum,
             coverage_bonus |-> coverage_bonus,
             nearest_distance_m |-> nearest_distance,
             poi_count |-> Len(poi_list),
             radius_used |-> radius,
             contributions |-> contributions, is_critical |-> FALSE,
             critical_threshold |-> NoNum, critical_cap |-> NoNum]
        Saturate(sorted_pois, contributions, utility_sum) ==
            Finish(sorted_pois, contributions, utility_sum,
                   _saturating_score(utility_sum,
                                     DictGet(SATURATION_K, category,
                                             DEFAULT_SATURATION_K)),
                   CoverageBonus(category, sorted_pois, radius),
                   IF sorted_pois = << >> THEN NoNum
                   ELSE sorted_pois[1].distance_m)
        Contribute(sorted_pois, contributions) ==
            Saturate(sorted_pois, contributions, SumContributions(contributions))
        Score(sorted_pois) ==
            Contribute(sorted_pois,
                       [i \in 1..Len(sorted_pois) |->
                           Contribution(sorted_pois[i], radius, decay_mode)])
    IN IF poi_list = << >> /\ nature_metrics = NoMetrics
       THEN EmptyCategoryResult(category, radius)
       ELSE IF category = "nature_background" /\ nature_metrics # NoMetrics
       THEN _calculate_nature_background_score(radius, nature_metrics, poi_list)
       ELSE Score(SubSeq(SortedPois(poi_list), 1, Min(Len(poi_list), MAX_POIS_FOR_SCORE)))

\* calculate(): one pass of the per-category loop, the hard radius cutoff and
\* the score of what is left
CategoryStep(profile, category, poi_list, nature_metrics) ==
    LET Mark(result, rules) ==
            IF rules = << >> THEN result
            ELSE [result EXCEPT !.is_critical = TRUE,
                                !.critical_threshold = rules[1].threshold,
                                !.critical_cap = rules[1].cap]
    IN Mark(_calculate_category_score(
                profile, category,
                SelectSeq(poi_list,
                          LAMBDA p : p.distance_m <= get_radius(profile, category)),
                get_radius(profile, category),
                IF category = "nature_background" THEN nature_metrics
                ELSE NoMetrics),
            SelectSeq(profile.critical_caps, LAMBDA r : r.category = category))

\* profile_engine.py ProfileScoringEngine._apply_critical_caps; the category
\* scores are in hundredths; a message is identified by the fields that are
\* formatted into its text
RECURSIVE _apply_critical_caps(_, _, _, _, _)
_apply_critical_caps(caps, total_score, category_scores, applied, s) ==
    IF caps = << >> THEN [total_score |-> total_score, applied |-> applied]
    ELSE LET rule == Head(caps)
             cat_score == DictGet(category_scores, rule.category, 0)
             fires == cat_score < 100 * rule.threshold
                      /\ total_score > rule.cap * s
             msg == [category |-> rule.category, cat_score |-> cat_score,
                     threshold |-> rule.threshold, cap |-> rule.cap]
         IN _apply_critical_caps(
                Tail(caps),
                IF fires THEN rule.cap * s ELSE total_score,
                category_scores,
                IF fires /\ ~SeqContains(applied, msg) THEN Append(applied, msg)
                ELSE applied,
                s)

\* _calculate_roads_penalty: nearest(subcats)
NearestRoad(roads, subcats) ==
    LET dists == {roads[i].distance_m : i \in {j \in 1..Len(roads) :
                                                roads[j].subcategory \in subcats}}
    IN IF dists = {} THEN NoNum
       ELSE CHOOSE d \in dists : \A e \in dists : d <= e

SIGNIFICANT_ROAD_TYPES == {"motorway", "trunk", "primary", "secondary", "tram", "rail"}

\* _calculate_roads_penalty: the unscaled point tally
RoadPenaltyPoints(roads) ==
    LET nearest_heavy == NearestRoad(roads, {"motorway", "trunk"})
        nearest_primary == NearestRoad(roads, {"primary"})
        nearest_secondary == NearestRoad(roads, {"secondary"})
        nearest_rails == NearestRoad(roads, {"tram", "rail"})
        heavy == IF nearest_heavy = NoNum THEN 0
                 ELSE IF nearest_heavy <= 300 THEN 20
                 ELSE IF nearest_heavy <= 600 THEN 12
                 ELSE IF nearest_heavy <= 1000 THEN 6 ELSE 0
        primary == IF nearest_primary = NoNum THEN 0
                   ELSE IF nearest_primary <= 100 THEN 12
                   ELSE IF nearest_primary <= 250 THEN 8
                   ELSE IF nearest_primary <= 500 THEN 4 ELSE 0
        secondary == IF nearest_secondary = NoNum THEN 0
                     ELSE IF nearest_secondary <= 150 THEN 6
                     ELSE IF nearest_secondary <= 300 THEN 3 ELSE 0
        rails == IF nearest_rails = NoNum THEN 0
                 ELSE IF nearest_rails <= 80 THEN 8
                 ELSE IF nearest_rails <= 150 THEN 4 ELSE 0
        significant_count == Cardinality({i \in 1..Len(roads) :
                                 roads[i].subcategory \in SIGNIFICANT_ROAD_TYPES})
        density == IF significant_count >= 10 THEN 5
                   ELSE IF significant_count >= 5 THEN 3 ELSE 0
    IN heavy + primary + secondary + rails + density

\* _calculate_roads_penalty; the penalty is returned multiplied by s
_calculate_roads_penalty(profile, roads, s) ==
    IF roads = << >> THEN [penalty |-> 0, debug |-> [count |-> 0]]
    ELSE LET noise_weight == Abs(get_weight(profile, "noise"))
             \* scale = 0.5 + min(1.5, noise_weight / 0.05), in tenths
             scale10 == 5 + Min(15, 2 * noise_weight)
         IN [penalty |-> Min(30 * s, RoadPenaltyPoints(roads) * scale10 * (s \div 10)),
             debug |-> [count |-> Len(roads),
                        nearest_heavy_m |-> NearestRoad(roads, {"motorway", "trunk"}),
                        nearest_primary_m |-> NearestRoad(roads, {"primary"}),
                        nearest_secondary_m |-> NearestRoad(roads, {"secondary"}),
                        nearest_rails_m |-> NearestRoad(roads, {"tram", "rail"})]]

\* a clamp that forgets the lower end
ClampScore_upper(total_score, s) == Min(100 * s, total_score)

\* calculate(): max(0, min(100, total_score))
ClampScore(total_score, s) == Max(0, Min(100 * s, total_score))

\* calculate() step 6 without the second cap pass (a blend that forgets the caps)
BlendWithBaseline_no_reapply(profile, total_score, category_scores, applied, base_neighborhood_score, s) ==
    IF base_neighborhood_score # NoNum
    THEN LET delta0 == total_score - base_neighborhood_score * s
             delta == Max(-(MAX_BASE_ADJUSTMENT * s),
                          Min(MAX_BASE_ADJUSTMENT * s, delta0))
         IN [total_score |-> ClampScore(base_neighborhood_score * s + delta, s),
             applied |-> applied]
    ELSE [total_score |-> total_score, applied |-> applied]

\* calculate() step 6: the profile corrects the baseline score of the
\* neighbourhood by at most MAX_BASE_ADJUSTMENT and the caps are applied again
BlendWithBaseline(profile, total_score, category_scores, applied, base_neighborhood_score, s) ==
    IF base_neighborhood_score # NoNum
    THEN LET delta0 == total_score - base_neighborhood_score * s
             delta == Max(-(MAX_BASE_ADJUSTMENT * s),
                          Min(MAX_BASE_ADJUSTMENT * s, delta0))
             blended == ClampScore(base_neighborhood_score * s + delta, s)
         IN _apply_critical_caps(profile.critical_caps, blended,
                                 category_scores, applied, s)
    ELSE [total_score |-> total_score, applied |-> applied]

\* calculate(): the categories the per-category loop scores
ScoredCategories(profile) ==
    {c \in Category \ {"noise"} :
        get_weight(profile, c) # 0 \/ c = "nature_background"}

\* calculate() step 1: the per-category loop over the enum, filling
\* category_results
RECURSIVE LoopOver(_, _, _, _)
LoopOver(categories, profile, pois_by_category, nature_metrics) ==
    IF categories = << >> THEN << >>
    ELSE (Head(categories)
             :> CategoryStep(profile, Head(categories),
                             DictGet(pois_by_category, Head(categories), << >>),
                             nature_metrics))
         @@ LoopOver(Tail(categories), profile, pois_by_category, nature_metrics)

CategoryLoop(profile, pois_by_category, nature_metrics) ==
    LoopOver(SelectSeq(CategoryOrder, LAMBDA c : c \in ScoredCategories(profile)),
             profile, pois_by_category, nature_metrics)

\* calculate() step 3: the weighted sum of the category scores, in 1/10000
BaseScoreRaw(profile, category_scores) ==
    SumSeq([c \in DOMAIN profile.weights |->
                IF c = "noise" THEN 0
                ELSE profile.weights[c] * DictGet(category_scores, c, 0)],
           KeysInOrder(profile.weights))

\* _extract_highlights: the road gates of the quiet strength; a distance is
\* tested for truth before it is compared (x.get(k) and x[k] <= limit)
IsQuietBlocked(roads_debug) ==
    \/ TruthyNum(DictGet(roads_debug, "nearest_primary_m", NoNum))
          /\ roads_debug.nearest_primary_m <= 250
    \/ TruthyNum(DictGet(roads_debug, "nearest_rails_m", NoNum))
          /\ roads_debug.nearest_rails_m <= 200
    \/ TruthyNum(DictGet(roads_debug, "nearest_secondary_m", NoNum))
          /\ roads_debug.nearest_secondary_m <= 300
    \/ TruthyNum(DictGet(roads_debug, "nearest_heavy_m", NoNum))
          /\ roads_debug.nearest_heavy_m <= 600
    \/ DictGet(roads_debug, "count", 0) >= 10

\* items[:n]
Take(items, n) == SubSeq(items, 1, Min(n, Len(items)))

\* ProfileScoringEngine._extract_highlights; the category scores are in
\* hundredths; a message is identified by its kind and its category
_extract_highlights(category_results, quiet_score, roads_debug) ==
    LET order == KeysInOrder(category_results)
        Strength(cat) ==
            IF TruthyNum(category_results[cat].nearest_distance_m)
                  /\ category_results[cat].nearest_distance_m <= 300
            THEN [kind |-> "excellent_access", category |-> cat]
            ELSE [kind |-> "high_score", category |-> cat]
        strong == SelectSeq(order, LAMBDA cat : category_results[cat].score >= 7000)
        weak == SelectSeq(order, LAMBDA cat :
                            /\ category_results[cat].score < 7000
                            /\ category_results[cat].score <= 3000
                            /\ category_results[cat].is_critical)
        strengths ==
            [i \in 1..Len(strong) |-> Strength(strong[i])]
               \o (IF quiet_score >= 70 /\ ~IsQuietBlocked(roads_debug)
                   THEN << [kind |-> "quiet_neighbourhood", category |-> "noise"] >>
                   ELSE << >>)
        weaknesses ==
            [i \in 1..Len(weak) |-> [kind |-> "weak_score", category |-> weak[i]]]
               \o (IF quiet_score < 70 /\ quiet_score <= 35
                   THEN << [kind |-> "loud_neighbourhood", category |-> "noise"] >>
                   ELSE << >>)
    IN [strengths |-> Take(strengths, 4), weaknesses |-> Take(weaknesses, 4)]

\* ProfileScoringEngine.calculate from step 2 on, given the category_results
\* of step 1 (CategoryLoop) and the list pois_by_category.get('roads', []); the
\* category scores are in hundredths, the noise entry holding
\* 100 * quiet_score.
calculate(profile, category_results, quiet_score, roads, base_neighborhood_score) ==
    LET s == ScoreScale(profile)
        noise_penalty ==
            IF "noise" \in DOMAIN profile.weights
            THEN Abs(profile.weights["noise"]) * (100 - quiet_score) * (s \div 100)
            ELSE 0
        Result(category_scores, base_score, rp, total_pre_adjust, capped, adjusted) ==
            [total_score |-> adjusted.total_score,
             base_score |-> base_score,
             noise_penalty |-> noise_penalty,
             roads_penalty |-> rp.penalty,
             quiet_score |-> quiet_score,
             category_results |-> category_results,
             category_scores |-> category_scores,
             profile_key |-> profile.key,
             scale |-> s,
             verdict |-> get_verdict(profile.thresholds, adjusted.total_score, s),
             critical_caps_applied |-> adjusted.applied,
             roads_debug |-> rp.debug,
             strengths |->
                 _extract_highlights(category_results, quiet_score, rp.debug).strengths,
             weaknesses |->
                 _extract_highlights(category_results, quiet_score, rp.debug).weaknesses,
             debug |-> [base_neighborhood_score |-> base_neighborhood_score,
                        total_score_pre_adjust |-> total_pre_adjust,
                        total_score_post_adjust |-> adjusted.total_score]]
        Adjust(category_scores, base_score, rp, total_pre_adjust, capped) ==
            Result(category_scores, base_score, rp, total_pre_adjust, capped,
                   BlendWithBaseline(profile, total_pre_adjust, category_scores,
                                     capped.applied, base_neighborhood_score, s))
        Cap(category_scores, base_score, rp, capped) ==
            Adjust(category_scores, base_score, rp,
                   ClampScore(capped.total_score, s), capped)
        Penalise(category_scores, base_score, rp) ==
            Cap(category_scores, base_score, rp,
                _apply_critical_caps(profile.critical_caps,
                                     base_score - noise_penalty - rp.penalty,
                                     category_scores, << >>, s))
        Weigh(category_scores) ==
            Penalise(category_scores,
                     IF TotalPositiveWeight(profile) > 0
                     THEN 10 * BaseScoreRaw(profile, category_scores)
                     ELSE BaseScoreRaw(profile, category_scores) \div 10,
                     _calculate_roads_penalty(profile, roads, s))
    IN Weigh([c \in DOMAIN category_results \cup {"noise"} |->
                 IF c = "noise" THEN 100 * quiet_score
                 ELSE category_results[c].score])

\* profile_verdict.py ProfileVerdictGenerator._level_from_score
_level_from_score(score, thresholds, s) ==
    IF score >= thresholds.recommended * s THEN "recommended"
    ELSE IF score >= thresholds.conditional * s THEN "conditional"
    ELSE "not_recommended"

\* ProfileVerdictGenerator._calculate_confidence
_calculate_confidence(score, thresholds, critical_caps, s) ==
    LET min_distance == Min(Abs(score - thresholds.recommended * s),
                            Abs(score - thresholds.conditional * s))
        base_confidence == IF min_distance >= 20 * s THEN 90
                           ELSE IF min_distance >= 15 * s THEN 80
                           ELSE IF min_distance >= 10 * s THEN 70
                           ELSE IF min_distance >= 5 * s THEN 55
                           ELSE 45
    IN IF critical_caps # << >>
       THEN Max(35, base_confidence - Min(Len(critical_caps) * 15, 30))
       ELSE base_confidence

\* generate() that trusts the score alone
generate_no_downgrade(result, profile) ==
    LET score == result.total_score
    IN [level |-> _level_from_score(score, profile.thresholds, result.scale),
        score |-> score,
        confidence |-> _calculate_confidence(score, profile.thresholds,
                                             result.critical_caps_applied,
                                             result.scale)]

\* generate() whose downgrade for unmet must-haves goes all the way down
generate_hard_downgrade(result, profile) ==
    LET score == result.total_score
        level0 == _level_from_score(score, profile.thresholds, result.scale)
        critical_caps == result.critical_caps_applied
        level == IF critical_caps # << >> /\ level0 = "recommended"
                 THEN "not_recommended" ELSE level0
    IN [level |-> level,
        score |-> score,
        confidence |-> _calculate_confidence(score, profile.thresholds,
                                             critical_caps, result.scale)]

\* ProfileVerdictGenerator.generate
generate(result, profile) ==
    LET score == result.total_score
        level0 == _level_from_score(score, profile.thresholds, result.scale)
        critical_caps == result.critical_caps_applied
        level == IF critical_caps # << >> /\ level0 = "recommended"
                 THEN "conditional" ELSE level0
    IN [level |-> level,
        score |-> score,
        confidence |-> _calculate_confidence(score, profile.thresholds,
                                             critical_caps, result.scale)]


(***************************************************************************)
(* Inputs of the scoring specification.                                    *)
(***************************************************************************)

NoResult == [profile_key |-> None]

NoVerdict == [level |-> None]

\* no single function call
NoCall == [fn |-> None]

\* the tags of a POI that the scoring reads
ScoreTags(rating, user_ratings_total, reviews_count, low_reviews, nameless) ==
    [rating |-> rating, user_ratings_total |-> user_ratings_total,
     reviews_count |-> reviews_count, low_reviews |-> low_reviews,
     nameless |-> nameless]

\* a named POI without rating
PlainTags == ScoreTags(NoNum, NoNum, NoNum, FALSE, FALSE)

\* a well rated POI with many reviews
RatedTags == ScoreTags(44, 150, NoNum, FALSE, FALSE)

\* a POI the adapter had to name itself
NamelessTags == ScoreTags(NoNum, NoNum, NoNum, FALSE, TRUE)

\* n POIs with the same tags at one distance
DensePois(n, distance_m, tags) ==
    [i \in 1..n |-> [distance_m |-> distance_m, tags |-> tags]]

\* the POI lists a category is handed, by what is in them: nothing; one POI
\* just beyond the radius; one POI at nine tenths of the radius; one POI at
\* 50 m; six highly rated POIs at 50 m
LowPoiLists == {"empty", "outside", "far"}

HighPoiLists == {"near", "dense"}

\* a highly rated POI with many reviews
TopTags == ScoreTags(50, 200, NoNum, FALSE, FALSE)

PoiListOf(kind, radius) ==
    CASE kind = "empty" -> << >>
      [] kind = "outside" -> DensePois(1, radius + 1, PlainTags)
      [] kind = "far" -> DensePois(1, (9 * radius) \div 10, PlainTags)
      [] kind = "near" -> DensePois(1, 50, PlainTags)
      [] kind = "dense" -> DensePois(6, 50, TopTags)

\* nature metrics of a green neighbourhood with water nearby
LushMetrics ==
    [green_density_proxy |-> 15,
     nearest_distances |-> [forest |-> 50, park |-> 300],
     nearest_water_m |-> 150,
     total_green_elements |-> 40]

NatureMetricsInputs == {NoMetrics, LushMetrics}

\* quiet_score values (external collaborator)
QuietVals == {0, 39, 40, 70, 100}

\* base_neighborhood_score values; NoNum = no baseline
BaselineVals == {NoNum, 50, 80, 100}

\* most road POIs in one input
MaxRoads == 2

RoadCandidates ==
    { [subcategory |-> "primary", distance_m |-> 100],
      [subcategory |-> "motorway", distance_m |-> 250],
      [subcategory |-> "tertiary", distance_m |-> 40] }

RECURSIVE SeqsUpTo(_, _)
SeqsUpTo(S, n) ==
    IF n = 0 THEN {<< >>}
    ELSE LET shorter == SeqsUpTo(S, n - 1)
         IN shorter \cup {Append(q, x) : q \in {r \in shorter : Len(r) = n - 1}, x \in S}

\* road lists sorted by distance, as the adapter delivers them
RoadInputs ==
    {r \in SeqsUpTo(RoadCandidates, MaxRoads) :
        \A i \in 1..Len(r) - 1 : r[i].distance_m < r[i + 1].distance_m}

CapCategories(profile) ==
    {profile.critical_caps[i].category : i \in 1..Len(profile.critical_caps)}

\* POI maps without their "roads" entry: the cap categories and shops may
\* hold a low list independently, the other categories share one high list
PoiMapInputs(profile) ==
    {[c \in ScoredCategories(profile) |->
         PoiListOf(IF c \in L THEN lo ELSE hi, get_radius(profile, c))] :
        L \in SUBSET ((CapCategories(profile) \cup {"shops"}) \ {"noise"}),
        lo \in LowPoiLists, hi \in HighPoiLists}

(***************************************************************************)
(* Scoring actions.                                                        *)
(***************************************************************************)

\* ProfileScoringEngine(profile).calculate(pois_by_category, quiet_score,
\* nature_metrics, base_neighborhood_score): step 1, then the steps after it
Calculate ==
    /\ score_pc = "idle"
    /\ \E k \in ProfileKeys :
       \E pm \in PoiMapInputs(PROFILE_REGISTRY[k]) :
       \E nm \in NatureMetricsInputs :
       \E category_results \in {CategoryLoop(PROFILE_REGISTRY[k], pm, nm)} :
       \E roads \in RoadInputs, q \in QuietVals, b \in BaselineVals :
           /\ fn_in' = [fn |-> "calculate", profile_key |-> k,
                        pois_by_category |-> pm @@ ("roads" :> roads),
                        quiet_score |-> q, nature_metrics |-> nm,
                        base_neighborhood_score |-> b]
           /\ scoring_result' = calculate(PROFILE_REGISTRY[k], category_results,
                                          q, roads, b)
    /\ score_pc' = "scored"
    /\ verdict_out' = NoVerdict
    /\ UNCHANGED fn_out
    /\ UNCHANGED hybridVars
    /\ UNCHANGED serviceVars

\* ProfileVerdictGenerator().generate(scoring_result, profile)
GenerateVerdict ==
    /\ score_pc = "scored"
    /\ verdict_out' = generate(scoring_result,
                               PROFILE_REGISTRY[scoring_result.profile_key])
    /\ score_pc' = "judged"
    /\ UNCHANGED << scoring_result, fn_in, fn_out >>
    /\ UNCHANGED hybridVars
    /\ UNCHANGED serviceVars


(***************************************************************************)
(*               PART II  -  PROVIDERS AND THE HYBRID MERGE                *)
(***************************************************************************)

\* overpass_client.py OverpassClient.POI_QUERIES (key order)
PoiCategoryOrder ==
    << "shops", "transport", "education", "health", "nature_place",
       "nature_background", "leisure", "food", "finance", "roads", "car_access" >>

PoiCategories == Range(PoiCategoryOrder)

CatIndex(c) == CHOOSE i \in 1..Len(PoiCategoryOrder) : PoiCategoryOrder[i] = c

MAX_POIS_PER_CATEGORY == 30

\* the point around which the modelled neighbourhood lies
Origin == 10000

\* what the open map holds: tagged elements (type:id, tags, position)
OSM_DATA ==
    [ n1 |-> [uid |-> "node:1", name |-> "Biedronka", lat |-> Origin + 120,
              shop |-> "supermarket", amenity |-> None, healthcare |-> None],
      n2 |-> [uid |-> "node:2", name |-> "Piekarnia Cafe", lat |-> Origin + 60,
              shop |-> "bakery", amenity |-> "cafe", healthcare |-> None],
      n3 |-> [uid |-> "node:3", name |-> "Kantor", lat |-> Origin + 300,
              shop |-> "kiosk", amenity |-> "bank", healthcare |-> None],
      n6 |-> [uid |-> "node:6", name |-> None, lat |-> Origin + 200,
              shop |-> None, amenity |-> "atm", healthcare |-> None] ]

OsmOrder == << "n1", "n2", "n3", "n6" >>

\* what the commercial provider holds: places (id, display name, position,
\* types, rating in tenths, review count)
GOOGLE_DATA ==
    [ g1 |-> [id |-> "g1", name |-> "Biedronka", lat |-> Origin + 125,
              types |-> << "supermarket" >>, rating |-> 44, reviews |-> 250],
      g2 |-> [id |-> "g2", name |-> "PIEKARNIA CAFE", lat |-> Origin + 62,
              types |-> << "bakery", "cafe" >>, rating |-> 40, reviews |-> 10],
      g3 |-> [id |-> "g3", name |-> "Kantor", lat |-> Origin + 305,
              types |-> << "cafe", "bank" >>, rating |-> 35, reviews |-> 40],
      g4 |-> [id |-> "g4", name |-> "ING", lat |-> Origin + 850,
              types |-> << "bank" >>, rating |-> NoNum, reviews |-> NoNum],
      g5 |-> [id |-> "g5", name |-> "Biedronka", lat |-> Origin + 700,
              types |-> << "supermarket", "bakery" >>, rating |-> 30, reviews |-> 500] ]

GoogleOrder == << "g1", "g2", "g3", "g4", "g5" >>

\* str.lower() on the names and profile keys that occur
Lower(name) ==
    CASE name = "Biedronka" -> "biedronka"
      [] name = "FAMILY" -> "family"
      [] name = "Piekarnia Cafe" -> "piekarnia cafe"
      [] name = "PIEKARNIA CAFE" -> "piekarnia cafe"
      [] name = "Kantor" -> "kantor"
      [] name = "ING" -> "ing"
      [] name = "Bankomat" -> "bankomat"
      [] name = "Obiekt bez nazwy" -> "obiekt bez nazwy"
      [] OTHER -> name

\* hybrid_poi_provider.py GENERIC_NAMES (ASCII transliteration)
GENERIC_NAMES ==
    {"plac zabaw", "boisko", "park", "skwer", "zielen", "przystanek",
     "przystanek autobusowy", "przystanek tramwajowy", "sklep", "kiosk",
     "parking", "garaz", "obiekt bez nazwy", "unknown"}

\* OverpassClient._haversine_distance / GooglePlacesClient._haversine_distance
\* for two points of the modelled meridian
_haversine_distance(lat1, lat2) == Abs(lat2 - lat1)

\* the grid step, in metres of arc, of round(coordinate, precision)
GridStep(precision) ==
    CASE precision = 5 -> 1
      [] precision = 4 -> 11
      [] precision = 3 -> 111

\* round(coordinate, precision): the index of the nearest grid line
RoundCoord(lat, precision) ==
    (2 * lat + GridStep(precision)) \div (2 * GridStep(precision))

\* cache.py normalize_coords
normalize_coords(lat, precision) == RoundCoord(lat, precision)

\* Python round(x / 20) * 20 for a non-negative integer x (ties go to even)
RoundToBucket(x) ==
    LET q == x \div 20
        r == x % 20
    IN IF r < 10 THEN q * 20
       ELSE IF r > 10 THEN (q + 1) * 20
       ELSE IF q % 2 = 0 THEN q * 20 ELSE (q + 1) * 20

\* _classify_tags: add(cat, pts) on an insertion-ordered dict
AddScore(scores, cat, pts) ==
    IF \E i \in 1..Len(scores) : scores[i].cat = cat
    THEN [i \in 1..Len(scores) |->
            IF scores[i].cat = cat
            THEN [cat |-> cat, score |-> scores[i].score + pts] ELSE scores[i]]
    ELSE Append(scores, [cat |-> cat, score |-> pts])

\* OverpassClient._classify_tags, for the tag keys shop, amenity, healthcare;
\* scores in tenths
_classify_tags(tags) ==
    LET Shop(s) == IF tags.shop # None THEN AddScore(s, "shops", 10) ELSE s
        Amenity(a, s) ==
            IF a \in {"restaurant", "cafe", "fast_food"} THEN AddScore(s, "food", 10)
            ELSE IF a = "bar" THEN AddScore(s, "food", 6)
            ELSE IF a \in {"pharmacy", "doctors", "hospital", "clinic", "dentist",
                           "veterinary"} THEN AddScore(s, "health", 10)
            ELSE IF a \in {"school", "kindergarten", "university", "college"}
                 THEN AddScore(s, "education", 10)
            ELSE IF a \in {"bank", "atm"} THEN AddScore(s, "finance", 10)
            ELSE IF a = "fuel" THEN AddScore(s, "car_access", 10)
            ELSE IF a = "parking" THEN AddScore(s, "car_access", 10)
            ELSE s
        Healthcare(s) == IF tags.healthcare # None THEN AddScore(s, "health", 10)
                         ELSE s
    IN Healthcare(Amenity(tags.amenity, Shop(<< >>)))

\* sorted(scores.items(), key=score, reverse=True): stable insertion sort
RECURSIVE InsertRanked(_, _)
InsertRanked(ranked, item) ==
    IF ranked = << >> THEN << item >>
    ELSE IF item.score > Head(ranked).score THEN << item >> \o ranked
    ELSE << Head(ranked) >> \o InsertRanked(Tail(ranked), item)

RECURSIVE RankScores(_)
RankScores(scores) ==
    IF scores = << >> THEN << >>
    ELSE InsertRanked(RankScores(SubSeq(scores, 1, Len(scores) - 1)),
                      scores[Len(scores)])

SECONDARY_SCORE_RATIO10 == 7

MAX_CATEGORIES_PER_POI == 2

\* _select_categories: the loop over ranked[1:]
RECURSIVE SelectSecondary(_, _, _)
SelectSecondary(rest, primary_score, secondary) ==
    IF rest = << >> THEN secondary
    ELSE LET sec == IF 10 * Head(rest).score >= SECONDARY_SCORE_RATIO10 * primary_score
                    THEN Append(secondary, Head(rest).cat) ELSE secondary
         IN IF Len(sec) >= Max(0, MAX_CATEGORIES_PER_POI - 1) THEN sec
            ELSE SelectSecondary(Tail(rest), primary_score, sec)

\* OverpassClient._select_categories
_select_categories(scores) ==
    IF scores = << >> THEN [primary |-> None, secondary |-> << >>]
    ELSE LET ranked == RankScores(scores)
         IN [primary |-> ranked[1].cat,
             secondary |-> SelectSecondary(Tail(ranked), ranked[1].score, << >>)]


(***************************************************************************)
(* Objects.  A POI object lives in poi_heap under its identity; its tags   *)
(* dict lives in tag_heap and is referenced by identity, so the copies of  *)
(* one open-map element (one per matched category) share one tags dict and *)
(* a commercial POI owns its dict.  Absent dict keys read as None / NoNum. *)
(***************************************************************************)

EmptyDict == << >>

\* a tags dict with no keys set
NewTags ==
    [shop |-> None, amenity |-> None, healthcare |-> None, place_id |-> None,
     rating |-> NoNum, user_ratings_total |-> NoNum, reviews_count |-> NoNum,
     types |-> << >>, source |-> None, nameless |-> FALSE, enriched |-> FALSE,
     low_reviews |-> FALSE, osm_uid |-> None]

\* overpass_client.py KNOWN_SHOP_TYPES
KNOWN_SHOP_TYPES ==
    {"supermarket", "convenience", "mall", "bakery", "clothes", "hairdresser",
     "beauty", "kiosk", "alcohol", "florist", "greengrocer", "butcher",
     "car_repair", "doityourself", "drugstore", "books", "electronics",
     "shoes", "furniture", "jewelry", "optician", "gift", "hardware",
     "toys", "sports", "pet", "chemist", "perfumery", "cosmetics",
     "tobacco", "newsagent", "stationery", "deli", "confectionery",
     "beverage", "wine", "garden_centre", "mobile_phone", "computer"}

\* _create_poi: the subcategory of an element inside one category
OsmSubcategory(tags, category) ==
    LET raw_shop == OrStr(tags.shop, "")
    IN CASE category = "shops" ->
              IF raw_shop \in {"yes", ""} \/ raw_shop \notin KNOWN_SHOP_TYPES
              THEN IF tags.amenity = "fuel" THEN "fuel_station"
                   ELSE IF raw_shop # "" THEN "general" ELSE ""
              ELSE raw_shop
         [] category \in {"education", "food", "finance"} -> OrStr(tags.amenity, "")
         [] category = "health" -> OrStr(tags.amenity, OrStr(tags.healthcare, ""))
         [] category = "car_access" -> OrStr(tags.amenity, "")
         [] OTHER -> ""

\* _create_poi: the placeholder name of an element without name
GeneratedName(subcategory) ==
    CASE subcategory = "atm" -> "Bankomat"
      [] subcategory = "bank" -> "Bank"
      [] OTHER -> "Obiekt bez nazwy"

OsmObj(key, category) == << key, category >>

OsmTagsId(key) == << key, "*" >>

\* dict built from an insertion-ordered list of (cat, score)
ScoresDict(scores) ==
    [c \in {scores[i].cat : i \in 1..Len(scores)} |->
        (CHOOSE it \in Range(scores) : it.cat = c).score]

\* OverpassClient._create_poi: the POI object (its tags dict is written by
\* CreatePoiTags)
_create_poi(elem, tid, category, ref_lat, primary_category, secondary_categories, osm_uid, scores) ==
    LET sub == OsmSubcategory(elem, category)
    IN [lat |-> elem.lat,
        name |-> IF elem.name # None THEN elem.name ELSE GeneratedName(sub),
        category |-> category,
        subcategory |-> sub,
        distance_m |-> _haversine_distance(ref_lat, elem.lat),
        tags |-> tid,
        source |-> "osm",
        primary_category |-> IF primary_category # None THEN primary_category
                             ELSE category,
        secondary_categories |-> Range(secondary_categories),
        category_scores |-> ScoresDict(scores),
        osm_uid |-> osm_uid,
        place_id |-> None]

\* _create_poi: what it writes into the element's tags dict
CreatePoiTags(tags, elem, osm_uid) ==
    [tags EXCEPT !.nameless = IF elem.name = None THEN TRUE ELSE @,
                 !.osm_uid = IF osm_uid # None THEN osm_uid ELSE @,
                 !.source = "osm"]

\* f with key k bound to v (dict assignment)
Put(f, k, v) == [x \in DOMAIN f \cup {k} |-> IF x = k THEN v ELSE f[x]]

\* list.sort(key=lambda p: p.distance_m): stable insertion sort of object ids
RECURSIVE InsertByDistance(_, _, _)
InsertByDistance(sorted, id, heap) ==
    IF sorted = << >> THEN << id >>
    ELSE IF heap[id].distance_m < heap[Head(sorted)].distance_m
         THEN << id >> \o sorted
         ELSE << Head(sorted) >> \o InsertByDistance(Tail(sorted), id, heap)

RECURSIVE SortByDistance(_, _)
SortByDistance(items, heap) ==
    IF items = << >> THEN << >>
    ELSE InsertByDistance(SortByDistance(SubSeq(items, 1, Len(items) - 1), heap),
                          items[Len(items)], heap)

\* get_pois_around: the loop "for cat in matched_cats" for one element
RECURSIVE EmitCopies(_, _, _, _, _, _)
EmitCopies(cats, key, sel, scores, ref_lat, st) ==
    IF cats = << >> THEN st
    ELSE LET cat == Head(cats)
             elem == OSM_DATA[key]
             tid == OsmTagsId(key)
             tags0 == IF tid \in DOMAIN st.tags THEN st.tags[tid]
                      ELSE [NewTags EXCEPT !.shop = elem.shop,
                                           !.amenity = elem.amenity,
                                           !.healthcare = elem.healthcare]
             poi == _create_poi(elem, tid, cat, ref_lat, sel.primary,
                                sel.secondary, elem.uid, scores)
             obj == OsmObj(key, cat)
             next == \* nature_background land cover is kept out of the POI lists
                     IF cat = "nature_background" THEN st
                     ELSE [st EXCEPT
                             !.heap = Put(st.heap, obj, poi),
                             !.tags = Put(st.tags, tid,
                                          CreatePoiTags(tags0, elem, elem.uid)),
                             !.pois = [st.pois EXCEPT ![cat] = Append(@, obj)]]
         IN EmitCopies(Tail(cats), key, sel, scores, ref_lat, next)

\* get_pois_around step 3: classify and parse the elements
RECURSIVE ParseElements(_, _, _, _, _)
ParseElements(elems, ref_lat, st, seen_osm_uid, seen_grid_primary) ==
    IF elems = << >> THEN st
    ELSE LET key == Head(elems)
             elem == OSM_DATA[key]
             core_tag == OrStr(elem.amenity, OrStr(elem.shop, ""))
             Selected(scores, sel, grid_key) ==
                 IF sel.primary = None \/ grid_key \in seen_grid_primary
                 THEN ParseElements(Tail(elems), ref_lat, st,
                                    seen_osm_uid \cup {elem.uid}, seen_grid_primary)
                 ELSE ParseElements(
                          Tail(elems), ref_lat,
                          EmitCopies(<< sel.primary >> \o sel.secondary, key, sel,
                                     scores, ref_lat, st),
                          seen_osm_uid \cup {elem.uid},
                          seen_grid_primary \cup {grid_key})
             Ranked(scores, sel) ==
                 Selected(scores, sel,
                          << RoundCoord(elem.lat, 5), sel.primary, core_tag >>)
             Classified(scores) == Ranked(scores, _select_categories(scores))
         IN IF elem.uid \in seen_osm_uid
            THEN ParseElements(Tail(elems), ref_lat, st, seen_osm_uid,
                               seen_grid_primary)
            ELSE Classified(_classify_tags(elem))

\* the open map answers a query with the elements inside the circle
OverpassElements(w, lat, radius_m) ==
    SelectSeq(OsmOrder, LAMBDA key :
        key \in w.osm /\ _haversine_distance(lat, OSM_DATA[key].lat) <= radius_m)

\* {cat: [] for cat in self.POI_QUERIES}
EmptyPoiMap == [c \in PoiCategories |-> << >>]

EmptyStore == [pois |-> EmptyPoiMap, heap |-> EmptyDict, tags |-> EmptyDict]

\* get_pois_around steps 3-5 on a parsed answer: classify, create, sort, limit
ParseAnswer(elems, ref_lat) ==
    LET SortAndLimit(st) ==
            [st EXCEPT !.pois =
                [c \in DOMAIN st.pois |->
                    Take(SortByDistance(st.pois[c], st.heap), MAX_POIS_PER_CATEGORY)]]
    IN SortAndLimit(ParseElements(elems, ref_lat, EmptyStore, {}, {}))

\* poi_filter.py filter_by_radius
filter_by_radius(pois_by_category, heap, radius_by_category, default_radius) ==
    [c \in DOMAIN pois_by_category |->
        LET max_distance == DictGet(radius_by_category, c, default_radius)
        IN SelectSeq(pois_by_category[c],
                     LAMBDA id : heap[id].distance_m <= max_distance)]


(***************************************************************************)
(* The commercial provider.  A stage threads one store record              *)
(*   [pois, heap, tags, ncache, dcache, calls]                              *)
(* holding the category map, the two heaps, the nearby and details caches  *)
(* and the log of provider requests made.                                  *)
(***************************************************************************)

\* google_places_client.py GOOGLE_TO_CATEGORY, the rows of the types that occur
GOOGLE_TO_CATEGORY ==
    [supermarket |-> << "shops", "supermarket" >>,
     grocery_or_supermarket |-> << "shops", "supermarket" >>,
     convenience_store |-> << "shops", "convenience" >>,
     shopping_mall |-> << "shops", "mall" >>,
     bakery |-> << "shops", "bakery" >>,
     store |-> << "shops", "general" >>,
     school |-> << "education", "school" >>,
     pharmacy |-> << "health", "pharmacy" >>,
     park |-> << "nature_place", "park" >>,
     restaurant |-> << "food", "restaurant" >>,
     cafe |-> << "food", "cafe" >>,
     bar |-> << "food", "bar" >>,
     bank |-> << "finance", "bank" >>,
     atm |-> << "finance", "atm" >>]

\* google_places_client.py SECONDARY_BY_GOOGLE_TYPE
SECONDARY_BY_GOOGLE_TYPE ==
    << << "food", {"cafe", "bakery", "restaurant", "meal_takeaway", "bar"} >>,
       << "finance", {"atm", "bank"} >>,
       << "health", {"pharmacy", "hospital", "doctor", "dentist"} >>,
       << "leisure", {"gym", "stadium", "amusement_park", "bowling_alley",
                      "movie_theater", "spa"} >>,
       << "nature_place", {"park", "natural_feature", "campground"} >>,
       << "shops", {"supermarket", "convenience_store", "shopping_mall", "store"} >>,
       << "education", {"school", "primary_school", "secondary_school",
                        "university", "library"} >>,
       << "transport", {"subway_station", "bus_station", "train_station",
                        "transit_station", "light_rail_station"} >> >>

\* google_places_client.py google_types_to_secondary
google_types_to_secondary(types) ==
    LET hit == SelectSeq(SECONDARY_BY_GOOGLE_TYPE,
                         LAMBDA row : Range(types) \cap row[2] # {})
    IN [i \in 1..Len(hit) |-> hit[i][1]]

\* hybrid_poi_provider.py FALLBACK_TYPES, in dict order
FallbackOrder ==
    << "shops", "education", "health", "transport", "food", "finance",
       "nature_place", "car_access" >>

FALLBACK_TYPES ==
    [shops |-> << "supermarket", "convenience_store", "store" >>,
     education |-> << "school" >>,
     health |-> << "pharmacy", "hospital", "doctor", "dentist", "health" >>,
     transport |-> << "bus_station", "transit_station", "train_station" >>,
     food |-> << "restaurant", "cafe", "bakery", "meal_takeaway" >>,
     finance |-> << "bank", "atm" >>,
     nature_place |-> << "park" >>,
     car_access |-> << "parking", "gas_station" >>]

\* google_places_client.py VALID_GOOGLE_TYPES
VALID_GOOGLE_TYPES ==
    {"supermarket", "convenience_store", "shopping_mall", "store",
     "grocery_or_supermarket", "bakery", "clothing_store", "shoe_store",
     "hardware_store", "electronics_store", "furniture_store", "book_store",
     "florist", "pet_store",
     "subway_station", "bus_station", "train_station", "transit_station",
     "light_rail_station",
     "school", "primary_school", "secondary_school", "university", "library",
     "pharmacy", "hospital", "doctor", "dentist",
     "physiotherapist", "veterinary_care",
     "park", "natural_feature", "campground",
     "gym", "stadium", "amusement_park", "bowling_alley", "movie_theater", "spa",
     "restaurant", "cafe", "bar", "meal_delivery", "meal_takeaway",
     "bank", "atm",
     "parking", "gas_station"}

\* a call that returned without raising
NoException == [exception |-> None]

\* hybrid_poi_provider.py _validate_fallback_types over a table and its key
\* order: no exception when the loops run to their end, otherwise the
\* ValueError of the first type, in iteration order, that is not a valid
\* Google type
_validate_fallback_types(fallback_types, order) ==
    LET Invalid(cat) ==
            SelectSeq(fallback_types[cat], LAMBDA t : t \notin VALID_GOOGLE_TYPES)
        Walk[i \in 1..(Len(order) + 1)] ==
            IF i > Len(order) THEN NoException
            ELSE IF Invalid(order[i]) # << >>
                 THEN [exception |-> "ValueError", cat |-> order[i],
                       t |-> Invalid(order[i])[1]]
                 ELSE Walk[i + 1]
    IN Walk[1]

DEFAULT_COVERAGE_THRESHOLD == 2

COVERAGE_THRESHOLDS ==
    [food |-> 3, finance |-> 2, health |-> 2, education |-> 2, shops |-> 5,
     transport |-> 2, nature_place |-> 2]

\* HybridPOIProvider._find_missing_categories
_find_missing_categories(coverage) ==
    SelectSeq(FallbackOrder, LAMBDA cat :
        DictGet(coverage, cat, 0)
            < DictGet(COVERAGE_THRESHOLDS, cat, DEFAULT_COVERAGE_THRESHOLD))

\* a place as Nearby Search returns it: the field mask has no rating
NearbyPlace(id) ==
    [id |-> id, displayName |-> GOOGLE_DATA[id].name, lat |-> GOOGLE_DATA[id].lat,
     types |-> GOOGLE_DATA[id].types, rating |-> NoNum, userRatingCount |-> NoNum]

MaxResultCount == 20

\* GooglePlacesClient._search_nearby on a 200 answer: the places of the
\* requested types inside the circle
_search_nearby(w, lat, radius_m, place_types) ==
    LET ids == SelectSeq(GoogleOrder, LAMBDA id :
                   /\ id \in w.google
                   /\ _haversine_distance(lat, GOOGLE_DATA[id].lat) <= radius_m
                   /\ Range(GOOGLE_DATA[id].types) \cap Range(place_types) # {})
        top == Take(ids, MaxResultCount)
    IN [i \in 1..Len(top) |-> NearbyPlace(top[i])]

\* first subcategory of a mapped type, else the category itself
RECURSIVE PlaceSubcategory(_, _)
PlaceSubcategory(types, our_category) ==
    IF types = << >> THEN our_category
    ELSE IF Head(types) \in DOMAIN GOOGLE_TO_CATEGORY
         THEN GOOGLE_TO_CATEGORY[Head(types)][2]
         ELSE PlaceSubcategory(Tail(types), our_category)

GoogleObj(id, category) == << id, category >>

\* GooglePlacesClient._create_poi_from_place: the POI object
_create_poi_from_place(place, our_category, ref_lat) ==
    LET secondary0 == google_types_to_secondary(place.types)
        secondary == SelectSeq(secondary0, LAMBDA c : c # our_category)
    IN [lat |-> place.lat,
        name |-> place.displayName,
        category |-> our_category,
        subcategory |-> PlaceSubcategory(place.types, our_category),
        distance_m |-> _haversine_distance(ref_lat, place.lat),
        tags |-> GoogleObj(place.id, our_category),
        source |-> "google_fallback",
        primary_category |-> our_category,
        secondary_categories |-> Range(Take(secondary, 1)),
        category_scores |-> EmptyDict,
        osm_uid |-> None,
        place_id |-> place.id]

\* _create_poi_from_place: the tags dict of the new POI
PlaceTags(place) ==
    [NewTags EXCEPT !.place_id = place.id, !.rating = place.rating,
                    !.user_ratings_total = place.userRatingCount,
                    !.types = place.types, !.source = "google_fallback"]

\* poi.place_id or poi.tags.get('place_id')
PlaceIdOf(poi, tags) == OrStr(poi.place_id, tags[poi.tags].place_id)

\* HybridPOIProvider._is_duplicate
_is_duplicate(new_poi, new_tags, existing, heap, tags) ==
    LET new_place_id == OrStr(new_poi.place_id, new_tags.place_id)
    IN \E i \in 1..Len(existing) :
          LET poi == heap[existing[i]]
          IN \/ new_place_id # None /\ PlaceIdOf(poi, tags) = new_place_id
             \/ /\ Lower(poi.name) = Lower(new_poi.name)
                /\ Abs(poi.distance_m - new_poi.distance_m) < 50


\* the key of the nearby cache: make_key('google_nearby', norm_lat, norm_lon,
\* cat_radius, types_key); the types are those of the category
NearbyKey(lat, cat_radius, category) ==
    << normalize_coords(lat, 4), cat_radius, category >>

\* one request in the log of provider requests
Call(op, arg) == [op |-> op, arg |-> arg]

\* _apply_fallback: the loop "for place in results[:10]"
RECURSIVE FallbackPlaces(_, _, _, _, _)
FallbackPlaces(places, category, lat, cat_radius, st) ==
    IF places = << >> THEN st
    ELSE LET place == Head(places)
             obj == GoogleObj(place.id, category)
             Added(poi, ptags) ==
                 IF \/ _is_duplicate(poi, ptags, st.pois[category], st.heap, st.tags)
                    \/ poi.distance_m > cat_radius
                 THEN st
                 ELSE [st EXCEPT !.heap = Put(st.heap, obj, poi),
                                 !.tags = Put(st.tags, obj, ptags),
                                 !.pois = [st.pois EXCEPT ![category] = Append(@, obj)]]
         IN FallbackPlaces(Tail(places), category, lat, cat_radius,
                           Added(_create_poi_from_place(place, category, lat),
                                 PlaceTags(place)))

\* _apply_fallback: the body of the loop for one category
FallbackCategory(st0, w, f, lat, radius_by_category, default_radius, category) ==
    LET cat_radius == DictGet(radius_by_category, category, default_radius)
        types == FALLBACK_TYPES[category]
        key == NearbyKey(lat, cat_radius, category)
        Answered(stored, answer) ==
            IF answer.null
            THEN stored                      \* results[:10] raises: caught, logged
            ELSE FallbackPlaces(Take(answer.places, 10), category, lat, cat_radius,
                                stored)
        Stored(asked, answer) ==
            Answered([asked EXCEPT !.ncache = Put(@, key, answer)], answer)
        Asked(asked) ==
            IF category \in f.nearby_raise
            THEN asked                       \* the request raises: caught, logged
            ELSE Stored(asked,
                        IF category \in f.nearby_null
                        THEN [null |-> TRUE, places |-> << >>]
                        ELSE [null |-> FALSE,
                              places |-> _search_nearby(w, lat, cat_radius, types)])
        Tried(st) ==
            IF key \in DOMAIN st.ncache /\ ~st.ncache[key].null
            THEN FallbackPlaces(Take(st.ncache[key].places, 10), category, lat,
                                cat_radius, st)
            ELSE Asked([st EXCEPT !.calls = Append(@, Call("nearby", category))])
        Sorted(tried) ==
            [tried EXCEPT !.pois[category] = SortByDistance(@, tried.heap)]
    IN Sorted(Tried(IF category \in DOMAIN st0.pois THEN st0
                    ELSE [st0 EXCEPT !.pois = Put(st0.pois, category, << >>)]))

RECURSIVE FallbackLoop(_, _, _, _, _, _, _)
FallbackLoop(categories, st, w, f, lat, radius_by_category, default_radius) ==
    IF categories = << >> THEN st
    ELSE FallbackLoop(Tail(categories),
                      FallbackCategory(st, w, f, lat, radius_by_category,
                                       default_radius, Head(categories)),
                      w, f, lat, radius_by_category, default_radius)

\* _apply_fallback with one try around the whole loop: the first failing
\* category ends the fallback
_apply_fallback_try_outside(st, w, f, lat, radius_by_category, default_radius, categories) ==
    LET failing == f.nearby_raise \cup f.nearby_null
        ok_prefix == CHOOSE n \in 0..Len(categories) :
                        /\ \A i \in 1..n : categories[i] \notin failing
                        /\ n < Len(categories) => categories[n + 1] \in failing
    IN IF ~w.api_key THEN st
       ELSE FallbackLoop(SubSeq(categories, 1, Min(ok_prefix + 1, Len(categories))),
                         st, w, f, lat, radius_by_category, default_radius)

\* HybridPOIProvider._apply_fallback
_apply_fallback(st, w, f, lat, radius_by_category, default_radius, categories) ==
    IF ~w.api_key THEN st
    ELSE FallbackLoop(categories, st, w, f, lat, radius_by_category, default_radius)


\* hybrid_poi_provider.py EnrichmentConfig defaults and DEFAULT_ENRICHMENT_CONFIG
EnrichmentConfig(top_k, enrich, max_distance_m, search_radius_m) ==
    [top_k |-> top_k, enrich |-> enrich, min_reviews_to_show |-> 20,
     max_distance_m |-> max_distance_m, search_radius_m |-> search_radius_m]

DEFAULT_ENRICHMENT_CONFIG ==
    [shops |-> EnrichmentConfig(5, TRUE, 120, 120),
     education |-> EnrichmentConfig(3, TRUE, 120, 120),
     health |-> EnrichmentConfig(3, TRUE, 120, 120),
     food |-> EnrichmentConfig(3, TRUE, 150, 150),
     transport |-> EnrichmentConfig(3, FALSE, 100, 100),
     nature_place |-> EnrichmentConfig(2, TRUE, 150, 150),
     nature_background |-> EnrichmentConfig(0, FALSE, 100, 100),
     leisure |-> EnrichmentConfig(3, TRUE, 80, 80),
     finance |-> EnrichmentConfig(2, FALSE, 100, 100)]

GENERIC_NEARBY_THRESHOLD_M == 120

GENERIC_FEW_ALTERNATIVES == 3

\* a details answer; kind is "details", "not_found" ({'_not_found': True})
\* or "none" (None)
NoDetails ==
    [kind |-> "none", place_id |-> None, rating |-> NoNum,
     user_ratings_total |-> NoNum, types |-> << >>, lat |-> NoNum, name |-> ""]

NotFoundMarker == [NoDetails EXCEPT !.kind = "not_found"]

DetailsOf(id) ==
    [kind |-> "details", place_id |-> id, rating |-> GOOGLE_DATA[id].rating,
     user_ratings_total |-> GOOGLE_DATA[id].reviews,
     types |-> GOOGLE_DATA[id].types, lat |-> GOOGLE_DATA[id].lat,
     name |-> GOOGLE_DATA[id].name]

\* GooglePlacesClient._get_place_details on an answered request
_get_place_details(w, place_id) ==
    IF place_id \in w.google THEN DetailsOf(place_id) ELSE NoDetails

\* the provider's own ranking of its places
GoogleRank(id) == CHOOSE i \in 1..Len(GoogleOrder) : GoogleOrder[i] = id

\* GooglePlacesClient._text_search_place on an answered request: the best
\* match of the text near the point (a bias, not a restriction)
_text_search_place(w, keyword, lat) ==
    LET cand == {id \in w.google : Lower(GOOGLE_DATA[id].name) = Lower(keyword)}
        best == CHOOSE id \in cand : \A o \in cand :
                   \/ _haversine_distance(lat, GOOGLE_DATA[id].lat)
                        < _haversine_distance(lat, GOOGLE_DATA[o].lat)
                   \/ /\ _haversine_distance(lat, GOOGLE_DATA[id].lat)
                           = _haversine_distance(lat, GOOGLE_DATA[o].lat)
                      /\ GoogleRank(id) <= GoogleRank(o)
    IN IF cand = {} THEN NoDetails ELSE DetailsOf(best)

\* GooglePlacesClient.find_place_details: every exception becomes None
find_place_details(w, f, name, lat) ==
    IF ~w.api_key \/ name \in f.text_fail THEN NoDetails
    ELSE _text_search_place(w, name, lat)

DetailsKey(place_id) == << "details", place_id, 0 >>

NotFoundKey(name, lat) == << "notfound", name, RoundCoord(lat, 3) >>

\* _enrich_top_k, the lines that write an accepted answer into the POI
ApplyDetails(poi, t, details, config) ==
    LET Applied(reviews, types, final_place_id, secondary) ==
            [poi |-> [poi EXCEPT
                        !.place_id = final_place_id,
                        !.secondary_categories =
                            IF types # << >> /\ secondary # << >>
                            THEN @ \cup {secondary[1]} ELSE @,
                        !.source = "google_enriched"],
             tags |-> [t EXCEPT
                        !.rating = details.rating,
                        !.reviews_count = reviews,
                        !.user_ratings_total = reviews,
                        !.enriched = TRUE,
                        !.types = types,
                        !.place_id = final_place_id,
                        !.low_reviews = IF reviews < config.min_reviews_to_show
                                        THEN TRUE ELSE @,
                        !.source = "google_enriched"]]
        Typed(types) ==
            Applied(OrNum(details.user_ratings_total, 0), types,
                    OrStr(t.place_id, details.place_id),
                    SelectSeq(google_types_to_secondary(types),
                              LAMBDA c : c # poi.primary_category))
    IN Typed(IF details.types # << >> THEN details.types ELSE t.types)

\* _enrich_top_k: the body of the loop for one POI of the top-k; es is
\* [st, seen_place_ids]
EnrichPoi(es, w, f, obj, config, category_count) ==
    LET poi == es.st.heap[obj]
        tid == poi.tags
        t == es.st.tags[tid]
        is_generic == Lower(poi.name) \in GENERIC_NAMES \/ t.nameless
        \* the answer is applied unless its place was enriched before
        Accepted(st1, details, post_place_id, applied) ==
            IF post_place_id # None /\ post_place_id \in es.seen
            THEN [es EXCEPT !.st = st1]
            ELSE [st |-> [st1 EXCEPT !.heap = [@ EXCEPT ![obj] = applied.poi],
                                     !.tags = [@ EXCEPT ![tid] = applied.tags]],
                  seen |-> IF post_place_id # None
                           THEN es.seen \cup {post_place_id} ELSE es.seen]
        \* the state after the fetch block, and the distance check
        Fetched(st1, details) ==
            IF details.kind # "details" THEN [es EXCEPT !.st = st1]
            ELSE IF _haversine_distance(poi.lat, details.lat) > config.max_distance_m
            THEN [es EXCEPT !.st = st1]
            ELSE Accepted(st1, details,
                          OrStr(st1.tags[tid].place_id, details.place_id),
                          ApplyDetails(st1.heap[obj], st1.tags[tid], details, config))
        \* the fetch block: the answer is cached and the place id written
        Stored(fetch, details, call, fetch_place_id) ==
            Fetched(IF ~fetch THEN es.st
                    ELSE IF fetch_place_id # None
                    THEN [es.st EXCEPT
                            !.calls = Append(@, call),
                            !.dcache = Put(@, DetailsKey(fetch_place_id), details),
                            !.tags = [@ EXCEPT ![tid].place_id = fetch_place_id],
                            !.heap = [@ EXCEPT ![obj].place_id = fetch_place_id]]
                    ELSE [es.st EXCEPT
                            !.calls = Append(@, call),
                            !.dcache = Put(@, NotFoundKey(poi.name, poi.lat),
                                           NotFoundMarker)],
                    details)
        Answered(existing_place_id, fetch, details, call) ==
            IF fetch /\ existing_place_id # None
                     /\ existing_place_id \in f.details_raise
            THEN [es EXCEPT !.st.calls = Append(@, call)]
            ELSE Stored(fetch, details, call,
                        IF details.kind = "details"
                        THEN OrStr(details.place_id, existing_place_id)
                        ELSE None)
        WithPlaceId(fetched0, existing_place_id) ==
            IF existing_place_id # None /\ fetched0.kind = "details"
            THEN [fetched0 EXCEPT !.place_id = existing_place_id]
            ELSE fetched0
        Cached(existing_place_id, cached) ==
            Answered(existing_place_id, cached.kind = "none",
                     IF cached.kind = "none"
                     THEN WithPlaceId(
                              IF existing_place_id # None
                              THEN _get_place_details(w, existing_place_id)
                              ELSE find_place_details(w, f, poi.name, poi.lat),
                              existing_place_id)
                     ELSE cached,
                     IF existing_place_id # None
                     THEN Call("details", existing_place_id)
                     ELSE Call("text", poi.name))
        Lookup(existing_place_id) ==
            IF existing_place_id # None /\ existing_place_id \in es.seen THEN es
            ELSE Cached(existing_place_id,
                        IF /\ existing_place_id # None
                           /\ DetailsKey(existing_place_id) \in DOMAIN es.st.dcache
                        THEN es.st.dcache[DetailsKey(existing_place_id)]
                        ELSE NoDetails)
    IN IF TruthyNum(t.rating) THEN es
       ELSE IF is_generic /\ ~(/\ poi.distance_m <= GENERIC_NEARBY_THRESHOLD_M
                               /\ category_count <= GENERIC_FEW_ALTERNATIVES)
       THEN es
       ELSE Lookup(OrStr(poi.place_id, t.place_id))

RECURSIVE EnrichItems(_, _, _, _, _, _)
EnrichItems(items, es, w, f, config, category_count) ==
    IF items = << >> THEN es
    ELSE EnrichItems(Tail(items),
                     EnrichPoi(es, w, f, Head(items), config, category_count),
                     w, f, config, category_count)

RECURSIVE EnrichCategories(_, _, _, _)
EnrichCategories(categories, es, w, f) ==
    IF categories = << >> THEN es
    ELSE LET category == Head(categories)
             config == DEFAULT_ENRICHMENT_CONFIG[category]
             items == es.st.pois[category]
         IN IF \/ category \notin DOMAIN DEFAULT_ENRICHMENT_CONFIG
               \/ ~config.enrich \/ config.top_k <= 0
            THEN EnrichCategories(Tail(categories), es, w, f)
            ELSE EnrichCategories(
                     Tail(categories),
                     EnrichItems(Take(items, config.top_k), es, w, f, config,
                                 Len(items)),
                     w, f)

\* the keys of a category map in dict (insertion) order
MapOrder(pois_by_category) ==
    SelectSeq(PoiCategoryOrder, LAMBDA c : c \in DOMAIN pois_by_category)

\* HybridPOIProvider._enrich_top_k
_enrich_top_k(st, w, f) ==
    EnrichCategories(MapOrder(st.pois), [st |-> st, seen |-> {}], w, f).st


\* _dedupe_pois: the loop over the items of one category
RECURSIVE DedupeItems(_, _, _, _, _, _)
DedupeItems(items, heap, tags, seen_place_ids, seen_fallback, unique_items) ==
    IF items = << >> THEN unique_items
    ELSE LET poi == heap[Head(items)]
             place_id == PlaceIdOf(poi, tags)
             fallback_key == << Lower(poi.name), RoundToBucket(poi.distance_m) >>
         IN IF place_id # None
            THEN IF place_id \in seen_place_ids
                 THEN DedupeItems(Tail(items), heap, tags, seen_place_ids,
                                  seen_fallback, unique_items)
                 ELSE DedupeItems(Tail(items), heap, tags,
                                  seen_place_ids \cup {place_id}, seen_fallback,
                                  Append(unique_items, Head(items)))
            ELSE IF fallback_key \in seen_fallback
                 THEN DedupeItems(Tail(items), heap, tags, seen_place_ids,
                                  seen_fallback, unique_items)
                 ELSE DedupeItems(Tail(items), heap, tags, seen_place_ids,
                                  seen_fallback \cup {fallback_key},
                                  Append(unique_items, Head(items)))

\* HybridPOIProvider._dedupe_pois
_dedupe_pois(st) ==
    [st EXCEPT !.pois =
        [c \in DOMAIN st.pois |->
            Take(SortByDistance(DedupeItems(st.pois[c], st.heap, st.tags, {}, {},
                                            << >>), st.heap),
                 MAX_POIS_PER_CATEGORY)]]

\* _merge_places: key_for
key_for(poi, tags) ==
    LET name == Lower(OrStr(poi.name, ""))
        grid == RoundCoord(poi.lat, 4)
    IN IF poi.place_id # None THEN << "place", poi.place_id, "", "", 0 >>
       ELSE IF poi.osm_uid # None THEN << "osm", poi.osm_uid, "", "", 0 >>
       ELSE IF name \in GENERIC_NAMES \/ tags[poi.tags].nameless
       THEN << "generic", OrStr(poi.primary_category, ""), poi.subcategory, "", grid >>
       ELSE << "name", name, "", "", grid >>

\* sorted(candidates): the categories in alphabetical order
AlphaOrder ==
    << "car_access", "education", "finance", "food", "health", "leisure",
       "nature_background", "nature_place", "roads", "shops", "transport" >>

\* first element of order that is in S
FirstIn(order, S) == order[CHOOSE i \in 1..Len(order) :
                              order[i] \in S /\ \A j \in 1..(i - 1) : order[j] \notin S]

\* HybridPOIProvider._normalize_categories; primary_category is set by both
\* constructors.  sorted() is stable, so candidates of equal score keep the
\* iteration order of the set, set_order.
_normalize_categories(poi, set_order) ==
    LET primary == poi.primary_category
        candidates == (poi.secondary_categories \cup DOMAIN poi.category_scores)
                          \ {primary}
        score(c) == DictGet(poi.category_scores, c, 0)
        best == {c \in candidates : \A o \in candidates : score(c) >= score(o)}
        secondary == IF candidates = {} THEN {}
                     ELSE IF DOMAIN poi.category_scores # {}
                     THEN {FirstIn(set_order, best)}
                     ELSE {FirstIn(AlphaOrder, candidates)}
    IN [poi EXCEPT !.secondary_categories = secondary]

\* union of two type lists, without repetition
UnionTypes(a, b) == a \o SelectSeq(b, LAMBDA x : x \notin Range(a))

\* HybridPOIProvider._merge_poi, statement by statement; base and other are
\* object identities and may be the same object
_merge_poi(st0, base0, other0, set_order0) ==
    LET
        \* _merge_poi: the place id of other is preferred over none
        MergePlaceId(st, base, other) ==
            IF st.heap[base].place_id = None /\ st.heap[other].place_id # None
            THEN [st EXCEPT !.heap[base].place_id = st.heap[other].place_id,
                            !.tags[st.heap[base].tags].place_id = st.heap[other].place_id]
            ELSE st

        \* _merge_poi: the osm_uid of other is preferred over none
        MergeOsmUid(st, base, other) ==
            IF st.heap[base].osm_uid = None /\ st.heap[other].osm_uid # None
            THEN [st EXCEPT !.heap[base].osm_uid = st.heap[other].osm_uid,
                            !.tags[st.heap[base].tags].osm_uid = st.heap[other].osm_uid]
            ELSE st

        \* _merge_poi: a real name is preferred over a generated one
        MergeName(st, base, other) ==
            IF st.tags[st.heap[base].tags].nameless /\ ~st.tags[st.heap[other].tags].nameless
               /\ st.heap[other].name # None
            THEN [st EXCEPT !.heap[base].name = st.heap[other].name,
                            !.tags[st.heap[base].tags].nameless = FALSE]
            ELSE st

        \* _merge_poi: the primary category of the open-map POI is preferred
        MergePrimary(st, base, other) ==
            IF st.heap[other].osm_uid # None /\ st.heap[base].osm_uid = None
            THEN [st EXCEPT !.heap[base].primary_category = st.heap[other].primary_category]
            ELSE IF st.heap[base].primary_category = None
                    /\ st.heap[other].primary_category # None
            THEN [st EXCEPT !.heap[base].primary_category = st.heap[other].primary_category]
            ELSE st

        \* _merge_poi: rating and reviews of other, if better
        MergeRating(st, base, other) ==
            LET bt == st.heap[base].tags
                ot == st.heap[other].tags
                base_reviews == OrNum(OrNum(st.tags[bt].user_ratings_total,
                                            st.tags[bt].reviews_count), 0)
                other_reviews == OrNum(OrNum(st.tags[ot].user_ratings_total,
                                             st.tags[ot].reviews_count), 0)
            IN IF /\ TruthyNum(st.tags[ot].rating)
                  /\ (~TruthyNum(st.tags[bt].rating) \/ other_reviews > base_reviews)
               THEN [st EXCEPT
                       !.tags[bt].rating = st.tags[ot].rating,
                       !.tags[bt].reviews_count =
                           OrNum(st.tags[ot].reviews_count, st.tags[ot].user_ratings_total),
                       !.tags[bt].user_ratings_total =
                           OrNum(st.tags[ot].user_ratings_total, st.tags[ot].reviews_count)]
               ELSE st

        \* _merge_poi: the types of both
        MergeTypes(st, base, other) ==
            IF st.tags[st.heap[other].tags].types # << >>
            THEN [st EXCEPT !.tags[st.heap[base].tags].types =
                                UnionTypes(st.tags[st.heap[base].tags].types,
                                           st.tags[st.heap[other].tags].types)]
            ELSE st

        \* _merge_poi: category scores (the maximum per key) and secondary categories
        MergeScores(st, base, other) ==
            LET bs == st.heap[base].category_scores
                os == st.heap[other].category_scores
            IN [st EXCEPT
                  !.heap[base].category_scores =
                      [k \in DOMAIN bs \cup DOMAIN os |->
                          IF k \in DOMAIN os THEN Max(DictGet(bs, k, 0), os[k])
                          ELSE bs[k]],
                  !.heap[base].secondary_categories =
                      st.heap[base].secondary_categories
                          \cup st.heap[other].secondary_categories]

        \* _merge_poi: the smaller distance
        MergeDistance(st, base, other) ==
            [st EXCEPT !.heap[base].distance_m =
                           Min(st.heap[base].distance_m, st.heap[other].distance_m)]

        \* _merge_poi: the source of a POI merged from two sources
        MergeSource(st, base, merged_sources) ==
            IF merged_sources
            THEN [st EXCEPT !.heap[base].source = "merged",
                            !.tags[st.heap[base].tags].source = "merged"]
            ELSE st

        \* _merge_poi: _normalize_categories(base), and category = primary
        MergeCategory(st, base, set_order) ==
            LET poi == _normalize_categories(st.heap[base], set_order)
            IN [st EXCEPT !.heap[base] =
                   IF poi.primary_category # None
                   THEN [poi EXCEPT !.category = poi.primary_category]
                   ELSE poi]
    IN MergeCategory(
         MergeSource(
           MergeDistance(
             MergeScores(
               MergeTypes(
                 MergeRating(
                   MergePrimary(
                     MergeName(
                       MergeOsmUid(MergePlaceId(st0, base0, other0), base0, other0),
                       base0, other0),
                     base0, other0),
                   base0, other0),
                 base0, other0),
               base0, other0),
             base0, other0),
           base0, st0.heap[base0].source # st0.heap[other0].source),
         base0, set_order0)

\* _merge_places: the loop over all items; m is [st, merged, merged_list]
RECURSIVE MergeItems(_, _, _)
MergeItems(items, m, set_order) ==
    IF items = << >> THEN m
    ELSE LET obj == Head(items)
             key == key_for(m.st.heap[obj], m.st.tags)
         IN IF key \notin DOMAIN m.merged
            THEN MergeItems(Tail(items),
                            [m EXCEPT !.merged = Put(@, key, obj),
                                      !.merged_list = Append(@, obj)],
                            set_order)
            ELSE MergeItems(Tail(items),
                            [m EXCEPT !.st = _merge_poi(m.st, m.merged[key], obj,
                                                        set_order)],
                            set_order)

\* pois.values() flattened in dict order
RECURSIVE AllItems(_, _)
AllItems(categories, pois_by_category) ==
    IF categories = << >> THEN << >>
    ELSE pois_by_category[Head(categories)]
             \o AllItems(Tail(categories), pois_by_category)

\* HybridPOIProvider._build_category_map
_build_category_map(places, base_keys, heap) ==
    LET category_keys ==
            base_keys
            \cup {heap[places[i]].primary_category : i \in 1..Len(places)}
            \cup UNION {heap[places[i]].secondary_categories : i \in 1..Len(places)}
    IN [cat \in category_keys \ {None} |->
           Take(SortByDistance(
                    SelectSeq(places, LAMBDA obj :
                        \/ heap[obj].primary_category = cat
                        \/ cat \in heap[obj].secondary_categories),
                    heap),
                MAX_POIS_PER_CATEGORY)]

\* HybridPOIProvider._merge_places
_merge_places(st, set_order) ==
    LET m == MergeItems(AllItems(MapOrder(st.pois), st.pois),
                        [st |-> st, merged |-> EmptyDict, merged_list |-> << >>],
                        set_order)
    IN [m.st EXCEPT !.pois = _build_category_map(m.merged_list, DOMAIN st.pois,
                                                 m.st.heap)]


\* poi_filter.py whitelists
FOOD_OSM_AMENITIES ==
    {"restaurant", "cafe", "fast_food", "bar", "pub", "ice_cream", "food_court",
     "biergarten"}

FOOD_OSM_SHOPS ==
    {"bakery", "confectionery", "deli", "butcher", "greengrocer", "convenience",
     "supermarket", "grocery", "cheese", "seafood", "pastry", "coffee", "tea",
     "wine", "alcohol", "beverages"}

FOOD_GOOGLE_TYPES ==
    {"restaurant", "cafe", "meal_takeaway", "meal_delivery", "bakery", "bar",
     "food", "grocery_or_supermarket"}

HEALTH_OSM_AMENITIES ==
    {"pharmacy", "doctors", "hospital", "clinic", "dentist", "veterinary",
     "optician"}

HEALTH_OSM_SHOPS == {"optician", "medical_supply", "hearing_aids"}

HEALTH_GOOGLE_TYPES ==
    {"pharmacy", "hospital", "doctor", "dentist", "health", "physiotherapist",
     "veterinary_care"}

EDUCATION_OSM_AMENITIES ==
    {"school", "kindergarten", "university", "college", "library",
     "language_school", "music_school", "driving_school", "training"}

EDUCATION_GOOGLE_TYPES ==
    {"school", "primary_school", "secondary_school", "university", "library",
     "preschool"}

\* poi_filter.py validate_category_membership
validate_category_membership(poi, t, category) ==
    LET amenity == OrStr(t.amenity, "")
        shop == OrStr(t.shop, "")
        google_types == Range(t.types)
        source == IF t.source # None THEN t.source ELSE poi.source
    IN IF source \in {"google_fallback", "google", "google_enriched", "merged"}
       THEN CASE category = "food" -> google_types \cap FOOD_GOOGLE_TYPES # {}
              [] category = "health" -> google_types \cap HEALTH_GOOGLE_TYPES # {}
              [] category = "education" ->
                     google_types \cap EDUCATION_GOOGLE_TYPES # {}
              [] OTHER -> TRUE
       ELSE CASE category = "food" ->
                     amenity \in FOOD_OSM_AMENITIES \/ shop \in FOOD_OSM_SHOPS
              [] category = "health" ->
                     amenity \in HEALTH_OSM_AMENITIES \/ shop \in HEALTH_OSM_SHOPS
              [] category = "education" -> amenity \in EDUCATION_OSM_AMENITIES
              [] OTHER -> TRUE

\* poi_filter.py filter_by_membership
filter_by_membership(pois_by_category, heap, tags) ==
    [c \in DOMAIN pois_by_category |->
        SelectSeq(pois_by_category[c], LAMBDA id :
            validate_category_membership(heap[id], tags[heap[id].tags], c))]

(***************************************************************************)
(* get_pois_hybrid, stage by stage.  rq is the request                     *)
(*   [lat, radius_m, radius_by_category, enable_enrichment,                *)
(*    enable_fallback, use_cache]                                          *)
(* w the world [osm, google, api_key], f the failures injected into the    *)
(* provider requests of the stage.                                         *)
(***************************************************************************)

NoFaults == [nearby_raise |-> {}, nearby_null |-> {}, details_raise |-> {},
             text_fail |-> {}]

\* layer 1: get_pois_around answered (ok) or exhausted (~ok), then the
\* per-category radius filter
BaseStage(st, w, rq, ok) ==
    LET Filtered(base) ==
            [st EXCEPT
               !.pois = IF DOMAIN rq.radius_by_category # {}
                        THEN filter_by_radius(base.pois, base.heap,
                                              rq.radius_by_category, rq.radius_m)
                        ELSE base.pois,
               !.heap = base.heap,
               !.tags = base.tags]
    IN Filtered(IF ok THEN ParseAnswer(OverpassElements(w, rq.lat, rq.radius_m),
                                       rq.lat)
                ELSE EmptyStore)

\* layer 3: fallback for the categories under their coverage threshold
FallbackStage(st, w, f, rq) ==
    LET coverage == [c \in DOMAIN st.pois |-> Len(st.pois[c])]
        Filtered(filled) ==
            IF DOMAIN rq.radius_by_category # {}
            THEN [filled EXCEPT !.pois =
                     filter_by_radius(filled.pois, filled.heap,
                                      rq.radius_by_category, rq.radius_m)]
            ELSE filled
        Filled(missing_categories) ==
            IF rq.enable_fallback /\ missing_categories # << >>
            THEN Filtered(_apply_fallback(st, w, f, rq.lat, rq.radius_by_category,
                                          rq.radius_m, missing_categories))
            ELSE st
    IN Filled(_find_missing_categories(coverage))

\* layer 2: enrichment of the top-k
EnrichStage(st, w, f, rq) ==
    IF rq.enable_enrichment /\ w.api_key THEN _enrich_top_k(st, w, f) ELSE st

\* final filters: membership, then (variant) no radius filter
FinalStage_no_radius(st, rq) ==
    [st EXCEPT !.pois = filter_by_membership(st.pois, st.heap, st.tags)]

\* final filters: membership, then radius
FinalStage(st, rq) ==
    LET InRadius(member) ==
            IF DOMAIN rq.radius_by_category # {}
            THEN filter_by_radius(member, st.heap, rq.radius_by_category, rq.radius_m)
            ELSE member
    IN [st EXCEPT !.pois = InRadius(filter_by_membership(st.pois, st.heap, st.tags))]

\* HybridPOIProvider.get_pois_hybrid
get_pois_hybrid(st, w, f_fallback, f_enrich, rq, ok, set_order) ==
    FinalStage(
        _merge_places(
            _dedupe_pois(
                EnrichStage(
                    FallbackStage(BaseStage(st, w, rq, ok), w, f_fallback, rq),
                    w, f_enrich, rq)),
            set_order),
        rq)

\* the returned map by value: every entry with its object identity, its
\* fields and its tags dict
Resolve(pois_by_category, heap, tags) ==
    [c \in DOMAIN pois_by_category |->
        [i \in 1..Len(pois_by_category[c]) |->
            [obj |-> pois_by_category[c][i],
             poi |-> heap[pois_by_category[c][i]],
             tags |-> tags[heap[pois_by_category[c][i]].tags]]]]


(***************************************************************************)
(* One hybrid request, step by step.                                       *)
(***************************************************************************)

MaxOsm == 2

MaxGoogle == 2

\* the worlds a request can meet: what the two providers hold, and whether
\* the commercial API key is configured
Worlds ==
    {[osm |-> o, google |-> g, api_key |-> k] :
        o \in {x \in SUBSET Range(OsmOrder) : Cardinality(x) <= MaxOsm},
        g \in {x \in SUBSET Range(GoogleOrder) : Cardinality(x) <= MaxGoogle},
        k \in BOOLEAN}

\* the global fetch radius of the requests
FetchRadius == 1000

\* per-category radius maps a profile may supply
RadiusMaps == {EmptyDict, [shops |-> 100, finance |-> 500]}

NoRequest ==
    [lat |-> Origin, radius_m |-> FetchRadius, radius_by_category |-> EmptyDict,
     enable_enrichment |-> FALSE, enable_fallback |-> FALSE, use_cache |-> FALSE]

\* failures that can hit the nearby searches of the fallback stage
FallbackFaults ==
    {NoFaults}
    \cup {[NoFaults EXCEPT !.nearby_raise = {c}] : c \in {"shops", "finance"}}
    \cup {[NoFaults EXCEPT !.nearby_null = {c}] : c \in {"shops"}}

\* failures that can hit the lookups of the enrichment stage
EnrichFaults ==
    {NoFaults}
    \cup {[NoFaults EXCEPT !.text_fail = {n}] : n \in {"Biedronka"}}
    \cup {[NoFaults EXCEPT !.details_raise = {g}] : g \in {"g3"}}

\* the iteration orders of a set of categories that a run can have
SetOrders == {PoiCategoryOrder, AlphaOrder}

\* overpass_client.py get_pois_around: max_retries
max_retries == 4

\* app_config.py overpass_endpoints: primary and three fallbacks
NumEndpoints == 4

Store ==
    [pois |-> pois, heap |-> poi_heap, tags |-> tag_heap,
     ncache |-> nearby_cache, dcache |-> details_cache, calls |-> calls]

SetStore(st) ==
    /\ pois' = st.pois
    /\ poi_heap' = st.heap
    /\ tag_heap' = st.tags
    /\ nearby_cache' = st.ncache
    /\ details_cache' = st.dcache
    /\ calls' = st.calls

storeVars == << pois, poi_heap, tag_heap, nearby_cache, details_cache, calls >>

InitHybrid ==
    /\ ServiceIdle
    /\ score_pc = "idle"
    /\ scoring_result = NoResult
    /\ verdict_out = NoVerdict
    /\ fn_in = NoCall
    /\ fn_out = NoCall
    /\ pc = "idle"
    /\ world \in Worlds
    /\ faults = NoFaults
    /\ req = NoRequest
    /\ pois = EmptyPoiMap
    /\ poi_heap = EmptyDict
    /\ tag_heap = EmptyDict
    /\ attempt = 0
    /\ endpoint_idx = 0
    /\ base_ok = FALSE
    /\ nearby_cache = EmptyDict
    /\ details_cache = EmptyDict
    /\ overpass_cache = EmptyDict
    /\ calls = << >>
    /\ returned = EmptyDict
    /\ served = 0

\* get_pois_hybrid is called
StartRequest ==
    /\ pc = "idle"
    /\ \E rbc \in RadiusMaps, ee \in BOOLEAN, ef \in BOOLEAN :
          req' = [NoRequest EXCEPT !.radius_by_category = rbc,
                                   !.enable_enrichment = ee,
                                   !.enable_fallback = ef]
    /\ pc' = "overpass"
    /\ attempt' = 0
    /\ UNCHANGED << world, faults, endpoint_idx, base_ok, overpass_cache,
                    returned, served >>
    /\ UNCHANGED storeVars
    /\ UNCHANGED scoreVars
    /\ UNCHANGED serviceVars

\* get_pois_around whose last failure is raised to the caller
OverpassFail_raise ==
    /\ pc = "overpass"
    /\ attempt < max_retries
    /\ endpoint_idx' = endpoint_idx + 1
    /\ IF attempt < max_retries - 1
       THEN /\ attempt' = attempt + 1
            /\ UNCHANGED << pc, base_ok >>
       ELSE /\ pc' = "raised"
            /\ UNCHANGED << attempt, base_ok >>
    /\ UNCHANGED storeVars
    /\ UNCHANGED << world, faults, req, overpass_cache, returned, served >>
    /\ UNCHANGED scoreVars
    /\ UNCHANGED serviceVars

\* get_pois_around: one attempt fails (RequestException / ValueError)
OverpassFail ==
    /\ pc = "overpass"
    /\ attempt < max_retries
    /\ endpoint_idx' = endpoint_idx + 1
    /\ IF attempt < max_retries - 1
       THEN /\ attempt' = attempt + 1
            /\ UNCHANGED << pc, base_ok >>
            /\ UNCHANGED storeVars
       ELSE /\ SetStore(BaseStage(Store, world, req, FALSE))
            /\ base_ok' = FALSE
            /\ pc' = "fallback"
            /\ UNCHANGED attempt
    /\ UNCHANGED << world, faults, req, overpass_cache, returned, served >>
    /\ UNCHANGED scoreVars
    /\ UNCHANGED serviceVars

\* get_pois_around: an attempt is answered; the answer is parsed and the
\* per-category radius filter applied
OverpassAnswer ==
    /\ pc = "overpass"
    /\ attempt < max_retries
    /\ SetStore(BaseStage(Store, world, req, TRUE))
    /\ base_ok' = TRUE
    /\ pc' = "fallback"
    /\ UNCHANGED << world, faults, req, attempt, endpoint_idx, overpass_cache,
                    returned, served >>
    /\ UNCHANGED scoreVars
    /\ UNCHANGED serviceVars

\* the calls a stage made: the part of the log written after `before`
CallsSince(before, st) == Range(SubSeq(st.calls, Len(before) + 1, Len(st.calls)))

\* a failure is the failure of a call that is made
FaultsHit(f, made) ==
    /\ \A c \in f.nearby_raise \cup f.nearby_null : Call("nearby", c) \in made
    /\ \A n \in f.text_fail : Call("text", n) \in made
    /\ \A g \in f.details_raise : Call("details", g) \in made

Fallback ==
    /\ pc = "fallback"
    /\ \E f \in FallbackFaults :
          LET Step(st) == /\ FaultsHit(f, CallsSince(calls, st))
                          /\ faults' = f
                          /\ SetStore(st)
          IN Step(FallbackStage(Store, world, f, req))
    /\ pc' = "enrich"
    /\ UNCHANGED << world, req, attempt, endpoint_idx, base_ok, overpass_cache,
                    returned, served >>
    /\ UNCHANGED scoreVars
    /\ UNCHANGED serviceVars

Enrich ==
    /\ pc = "enrich"
    /\ \E f \in EnrichFaults :
          LET Step(st) ==
                  /\ FaultsHit(f, CallsSince(calls, st))
                  /\ faults' = [f EXCEPT !.nearby_raise = faults.nearby_raise,
                                         !.nearby_null = faults.nearby_null]
                  /\ SetStore(st)
          IN Step(EnrichStage(Store, world, f, req))
    /\ pc' = "dedupe"
    /\ UNCHANGED << world, req, attempt, endpoint_idx, base_ok, overpass_cache,
                    returned, served >>
    /\ UNCHANGED scoreVars
    /\ UNCHANGED serviceVars

Dedupe ==
    /\ pc = "dedupe"
    /\ SetStore(_dedupe_pois(Store))
    /\ pc' = "merge"
    /\ UNCHANGED << world, faults, req, attempt, endpoint_idx, base_ok,
                    overpass_cache, returned, served >>
    /\ UNCHANGED scoreVars
    /\ UNCHANGED serviceVars

Merge ==
    /\ pc = "merge"
    /\ \E set_order \in SetOrders : SetStore(_merge_places(Store, set_order))
    /\ pc' = "final"
    /\ UNCHANGED << world, faults, req, attempt, endpoint_idx, base_ok,
                    overpass_cache, returned, served >>
    /\ UNCHANGED scoreVars
    /\ UNCHANGED serviceVars

\* the final filters, and the return of the map
Return ==
    /\ pc = "final"
    /\ LET Step(st) == /\ SetStore(st)
                       /\ returned' = Resolve(st.pois, st.heap, st.tags)
       IN Step(FinalStage(Store, req))
    /\ pc' = "done"
    /\ served' = served + 1
    /\ UNCHANGED << world, faults, req, attempt, endpoint_idx, base_ok,
                    overpass_cache >>
    /\ UNCHANGED scoreVars
    /\ UNCHANGED serviceVars

NextHybrid ==
    \/ StartRequest
    \/ OverpassFail
    \/ OverpassAnswer
    \/ Fallback
    \/ Enrich
    \/ Dedupe
    \/ Merge
    \/ Return

SpecHybrid == InitHybrid /\ [][NextHybrid]_vars


(***************************************************************************)
(* Part III.  Specifications and properties.                               *)
(***************************************************************************)

\* the hybrid pipeline at rest (the scoring specification does not move it)
HybridIdle ==
    /\ pc = "idle"
    /\ world = [osm |-> {}, google |-> {}, api_key |-> FALSE]
    /\ faults = NoFaults
    /\ req = NoRequest
    /\ pois = EmptyPoiMap
    /\ poi_heap = EmptyDict
    /\ tag_heap = EmptyDict
    /\ attempt = 0
    /\ endpoint_idx = 0
    /\ base_ok = FALSE
    /\ nearby_cache = EmptyDict
    /\ details_cache = EmptyDict
    /\ overpass_cache = EmptyDict
    /\ calls = << >>
    /\ returned = EmptyDict
    /\ served = 0

Init ==
    /\ ServiceIdle
    /\ score_pc = "idle"
    /\ scoring_result = NoResult
    /\ verdict_out = NoVerdict
    /\ fn_in = NoCall
    /\ fn_out = NoCall
    /\ HybridIdle

Next == Calculate \/ GenerateVerdict

Spec == Init /\ [][Next]_vars

\* the score a cap rule reads for its category
CapCategoryScore(rule) ==
    IF rule.category = "noise" THEN 100 * scoring_result.quiet_score
    ELSE DictGet(scoring_result.category_scores, rule.category, 0)

\* the cap rules of the profile of the current result whose condition holds
UnmetRules ==
    LET caps == PROFILE_REGISTRY[scoring_result.profile_key].critical_caps
    IN {caps[i] : i \in {j \in 1..Len(caps) :
                            CapCategoryScore(caps[j]) < 100 * caps[j].threshold}}

\* C1: in every scoring result, every critical-cap rule whose category score
\* (0 when unscored, quiet_score for noise) is below its threshold bounds the
\* total: total_score <= cap, without a baseline and after the baseline blend.
C1_CapsBoundTotal ==
    score_pc # "idle" =>
        \A rule \in UnmetRules :
            scoring_result.total_score <= rule.cap * scoring_result.scale

\* C1 happens: a baseline is supplied, baseline - 20 lies above the cap of an
\* unmet rule (the blend alone would exceed it), and the total is that cap
C1_Witness ==
    /\ score_pc = "scored"
    /\ scoring_result.debug.base_neighborhood_score # NoNum
    /\ \E rule \in UnmetRules :
          /\ scoring_result.debug.base_neighborhood_score - MAX_BASE_ADJUSTMENT
                > rule.cap
          /\ scoring_result.total_score = rule.cap * scoring_result.scale

\* C2: a verdict for a result with a non-empty critical_caps_applied is never
\* `recommended`.
C2_NoRecommendedWithCaps ==
    (score_pc = "judged" /\ scoring_result.critical_caps_applied # << >>)
        => verdict_out.level # "recommended"

\* C2 happens: cap (education, 35, 70) with education score 0 holds the total
\* at 70, at or above the recommended threshold, and the level is conditional
C2_Witness ==
    /\ score_pc = "judged"
    /\ scoring_result.profile_key = "family"
    /\ scoring_result.category_scores["education"] = 0
    /\ \E i \in 1..Len(scoring_result.critical_caps_applied) :
          scoring_result.critical_caps_applied[i] =
              [category |-> "education", cat_score |-> 0, threshold |-> 35,
               cap |-> 70]
    /\ scoring_result.total_score = 70 * scoring_result.scale
    /\ scoring_result.total_score
          >= PROFILE_REGISTRY["family"].thresholds.recommended
                * scoring_result.scale
    /\ verdict_out.level = "conditional"


\* the entries of the returned map named like the shop
EntriesNamed(category, lower_name) ==
    SelectSeq(returned[category], LAMBDA e : Lower(e.poi.name) = lower_name)

\* scenario 4: the open map holds "Biedronka" at 120 m without a commercial
\* identifier, the provider holds the same shop at 125 m with a place-id, the
\* category shops is under-covered and the fallback is enabled and answered
C3_Scenario ==
    /\ pc = "done"
    /\ world.osm = {"n1"}
    /\ world.google = {"g1"}
    /\ world.api_key
    /\ base_ok
    /\ req.enable_fallback
    /\ DOMAIN req.radius_by_category = {}
    /\ faults = NoFaults

\* C3: in scenario 4 the final shops list holds exactly one POI for the shop,
\* with provenance `merged`, the commercial place-id and the rating the
\* provider has for it.
C3_MergedOnce ==
    C3_Scenario =>
        LET es == EntriesNamed("shops", "biedronka")
        IN /\ Len(es) = 1
           /\ es[1].poi.source = "merged"
           /\ es[1].poi.place_id = "g1"
           /\ es[1].tags.rating = GOOGLE_DATA["g1"].rating

\* what the code does in scenario 4: the fallback POI is dropped as a
\* duplicate of the open-map POI, which is returned alone and never `merged`
C3_Observed ==
    C3_Scenario =>
        LET es == EntriesNamed("shops", "biedronka")
        IN /\ Len(es) = 1
           /\ es[1].obj = OsmObj("n1", "shops")
           /\ es[1].poi.source \in {"osm", "google_enriched"}
           /\ Call("nearby", "shops") \in Range(calls)

\* the place-id of a returned entry (attribute or tag)
EntryPlaceId(e) == OrStr(e.poi.place_id, e.tags.place_id)

\* the open-map entity id of a returned entry (attribute or tag)
EntryOsmUid(e) == OrStr(e.poi.osm_uid, e.tags.osm_uid)

\* two entries are entries for the same place
SamePlace(a, b) ==
    \/ EntryPlaceId(a) # None /\ EntryPlaceId(a) = EntryPlaceId(b)
    \/ EntryOsmUid(a) # None /\ EntryOsmUid(a) = EntryOsmUid(b)

\* C4: no category list of the returned map holds two entries for the same
\* place (same place-id or same osm_uid).
C4_NoDuplicatePlace ==
    pc = "done" =>
        \A c \in DOMAIN returned :
            \A i \in 1..Len(returned[c]), j \in 1..Len(returned[c]) :
                i < j => ~SamePlace(returned[c][i], returned[c][j])

\* C5: every POI object, from creation on and after every stage, has
\* distance_m >= 0, at most one secondary category, and a primary category
\* that is not among its secondary categories.
C5_PoiShape ==
    \A obj \in DOMAIN poi_heap :
        /\ poi_heap[obj].distance_m >= 0
        /\ Cardinality(poi_heap[obj].secondary_categories) <= 1
        /\ poi_heap[obj].primary_category \notin poi_heap[obj].secondary_categories

\* C5, second half: no entry of the returned map has two secondary categories
C5_FinalOneSecondary ==
    pc = "done" =>
        \A c \in DOMAIN returned : \A i \in 1..Len(returned[c]) :
            Cardinality(returned[c][i].poi.secondary_categories) <= 1


\* a POI set concatenated with a copy of itself
Doubled(st) ==
    [st EXCEPT !.pois = [c \in DOMAIN st.pois |-> st.pois[c] \o st.pois[c]]]

\* the per-category dedupe followed by the global merge pass
DedupeThenMerge(st, set_order) == _merge_places(_dedupe_pois(st), set_order)

\* the per-category output by value
View(st) == Resolve(st.pois, st.heap, st.tags)

\* the (lower-cased name, 20 m distance bucket) key of an entry
BucketKey(e) == << Lower(e.poi.name), RoundToBucket(e.poi.distance_m) >>

\* C6, first part: the pass on a set concatenated with itself gives the
\* output of the pass on the set
C6_DoubleInput ==
    pc = "dedupe" =>
        \A o \in SetOrders :
            View(DedupeThenMerge(Doubled(Store), o)) = View(DedupeThenMerge(Store, o))

\* C6, second part: the pass on its own output changes nothing
C6_Rerun ==
    pc = "dedupe" =>
        \A o \in SetOrders :
            View(DedupeThenMerge(DedupeThenMerge(Store, o), o))
                = View(DedupeThenMerge(Store, o))

\* C6, third part: no two survivors of a category share an identifier or a
\* (name, bucket) key
C6_NoCollision ==
    pc = "dedupe" =>
        \A o \in SetOrders :
            LET out == View(DedupeThenMerge(Store, o))
            IN \A c \in DOMAIN out :
                  \A i \in 1..Len(out[c]), j \in 1..Len(out[c]) :
                      i < j => /\ ~SamePlace(out[c][i], out[c][j])
                               /\ BucketKey(out[c][i]) # BucketKey(out[c][j])

\* C6: deduplication is idempotent: the per-category dedupe followed by the
\* global merge gives the same per-category output on a POI set concatenated
\* with itself as on the set, re-running it on its own output changes
\* nothing, and no two survivors of a category share an identifier or a
\* (lower-cased name, 20 m bucket) key.
C6_DedupeIdempotent == C6_DoubleInput /\ C6_Rerun /\ C6_NoCollision


\* the radius that applies to a category of the current request
CategoryRadius(c) == DictGet(req.radius_by_category, c, req.radius_m)

\* C7, the returned map: with a per-category radius map supplied, every entry
\* of every returned category list lies within the radius of that category
C7_Final ==
    (pc = "done" /\ DOMAIN req.radius_by_category # {}) =>
        \A c \in DOMAIN returned : \A i \in 1..Len(returned[c]) :
            returned[c][i].poi.distance_m <= CategoryRadius(c)

\* C7, the filter: the final radius filter keeps a POI of a category list if
\* and only if its distance_m is at most the radius of the category
C7_FilterIff ==
    (pc = "final" /\ pc' = "done" /\ DOMAIN req.radius_by_category # {}) =>
        LET member == filter_by_membership(pois, poi_heap, tag_heap)
        IN \A c \in DOMAIN member : \A i \in 1..Len(member[c]) :
              (member[c][i] \in Range(pois'[c]))
                  <=> (poi_heap[member[c][i]].distance_m <= CategoryRadius(c))

\* C7: when a per-category radius map is supplied, every POI of every
\* returned category list has distance_m <= the radius of the category (the
\* fetch radius for categories absent from the map), and the radius filter
\* keeps a POI if and only if distance_m <= the radius of the category.
C7_RadiusHolds == []C7_Final /\ [][C7_FilterIff]_vars

\* C7 happens: a place with primary category shops (radius 100) lies at 300 m;
\* the merge put it into the lists of shops and of its secondary category
\* finance (radius 500), and it is returned in finance only
C7_Witness ==
    /\ pc = "done"
    /\ DOMAIN req.radius_by_category # {}
    /\ \E i \in 1..Len(returned["finance"]) :
          /\ returned["finance"][i].poi.primary_category = "shops"
          /\ returned["finance"][i].poi.distance_m > CategoryRadius("shops")
          /\ returned["finance"][i].poi.distance_m <= CategoryRadius("finance")
    /\ returned["shops"] = << >>

\* the lookup of the enrichment stage for this POI is one that fails
LookupFails(obj, f) ==
    LET poi == poi_heap[obj]
        place_id == PlaceIdOf(poi, tag_heap)
    IN IF place_id # None THEN place_id \in f.details_raise
       ELSE poi.name \in f.text_fail

\* C8, fallback: a failing nearby search of one category leaves the map
\* well-formed, the POIs collected so far and the failing category's list
\* unchanged, and every other category filled as without the failure
C8_FallbackStep ==
    (pc = "fallback" /\ pc' = "enrich") =>
        LET failing == faults'.nearby_raise \cup faults'.nearby_null
            clean == FallbackStage(Store, world, NoFaults, req)
        IN /\ PoiCategories \subseteq DOMAIN pois'
           /\ \A c \in DOMAIN pois : \A i \in 1..Len(pois[c]) :
                 /\ pois[c][i] \in Range(pois'[c])
                 /\ poi_heap'[pois[c][i]] = poi_heap[pois[c][i]]
                 /\ tag_heap'[poi_heap[pois[c][i]].tags]
                       = tag_heap[poi_heap[pois[c][i]].tags]
           /\ \A c \in failing : pois'[c] = pois[c]
           /\ \A c \in DOMAIN pois' \ failing : pois'[c] = clean.pois[c]

\* C8, enrichment: a failing lookup for one POI leaves the category lists and
\* that POI unchanged, and every other POI enriched as without the failure
C8_EnrichStep ==
    (pc = "enrich" /\ pc' = "dedupe") =>
        LET f == faults'
            clean == EnrichStage(Store, world, NoFaults, req)
        IN /\ pois' = pois
           /\ \A obj \in DOMAIN poi_heap :
                 IF LookupFails(obj, f)
                 THEN /\ poi_heap'[obj] = poi_heap[obj]
                      /\ tag_heap'[poi_heap[obj].tags] = tag_heap[poi_heap[obj].tags]
                 ELSE /\ poi_heap'[obj] = clean.heap[obj]
                      /\ tag_heap'[poi_heap[obj].tags]
                            = clean.tags[poi_heap[obj].tags]

C9_BaseFetchFailure ==
    /\ pc # "raised"
    /\ pc = "overpass" => endpoint_idx = attempt
    /\ (pc \notin {"idle", "overpass"} /\ ~base_ok) =>
          /\ attempt = max_retries - 1
          /\ endpoint_idx = max_retries
    /\ (pc = "fallback" /\ ~base_ok) => pois = EmptyPoiMap
    /\ (pc = "done" /\ ~base_ok) =>
          /\ PoiCategories \subseteq DOMAIN returned
          /\ (req.enable_fallback /\ world.api_key) =>
                \A c \in Range(FallbackOrder) : Call("nearby", c) \in Range(calls)

\* C9 happens: the open map holds elements, all attempts failed, and the
\* returned map holds what the fallback found
C9_Witness ==
    /\ pc = "done"
    /\ ~base_ok
    /\ endpoint_idx = max_retries
    /\ world.osm # {}
    /\ \E c \in DOMAIN returned : \E i \in 1..Len(returned[c]) :
          returned[c][i].tags.source = "google_fallback"


\* the enrichment lookup for this POI of category c is a text search whose
\* answer lies farther from the POI than the category's max_distance_m
RejectedLookup(obj, c) ==
    LET poi == poi_heap[obj]
        t == tag_heap[poi.tags]
        config == DEFAULT_ENRICHMENT_CONFIG[c]
        answer == find_place_details(world, NoFaults, poi.name, poi.lat)
    IN /\ req.enable_enrichment /\ world.api_key
       /\ config.enrich
       /\ obj \in Range(Take(pois[c], config.top_k))
       /\ \A o \in DOMAIN poi_heap : poi_heap[o].tags = poi.tags => o = obj
       /\ ~TruthyNum(t.rating)
       /\ PlaceIdOf(poi, tag_heap) = None
       /\ ~(Lower(poi.name) \in GENERIC_NAMES \/ t.nameless)
       /\ answer.kind = "details"
       /\ _haversine_distance(poi.lat, answer.lat) > config.max_distance_m

\* C11, the enrichment step: a POI whose lookup is rejected for its distance
\* is the POI it was before the lookup
C11_EnrichStep ==
    (pc = "enrich" /\ pc' = "dedupe" /\ faults'.text_fail = {}) =>
        \A c \in DOMAIN pois : \A obj \in Range(pois[c]) :
            RejectedLookup(obj, c) =>
                /\ Call("text", poi_heap[obj].name) \in CallsSince(calls, [calls |-> calls'])
                /\ tag_heap'[poi_heap[obj].tags].rating = tag_heap[poi_heap[obj].tags].rating
                /\ tag_heap'[poi_heap[obj].tags].reviews_count
                      = tag_heap[poi_heap[obj].tags].reviews_count
                /\ tag_heap'[poi_heap[obj].tags].enriched = tag_heap[poi_heap[obj].tags].enriched
                /\ poi_heap'[obj].source = poi_heap[obj].source
                /\ poi_heap'[obj].place_id = poi_heap[obj].place_id
                /\ tag_heap'[poi_heap[obj].tags].place_id = tag_heap[poi_heap[obj].tags].place_id

\* C11: when an enrichment lookup resolves to coordinates farther than the
\* category's max_distance_m from the POI, the result is rejected and the POI
\* is left as it was before the lookup: no rating or review count attached,
\* provenance not changed to enriched, place id not set to the rejected
\* place's identifier.
C11_RejectedUnchanged == [][C11_EnrichStep]_vars

\* what the code does keep of C11: no rating, no review count, no enriched
\* provenance; the place id is the rejected place's
C11_Observed ==
    [][(pc = "enrich" /\ pc' = "dedupe" /\ faults'.text_fail = {}) =>
        \A c \in DOMAIN pois : \A obj \in Range(pois[c]) :
            RejectedLookup(obj, c) =>
                /\ tag_heap'[poi_heap[obj].tags].rating = tag_heap[poi_heap[obj].tags].rating
                /\ tag_heap'[poi_heap[obj].tags].reviews_count
                      = tag_heap[poi_heap[obj].tags].reviews_count
                /\ poi_heap'[obj].source = poi_heap[obj].source
                /\ poi_heap'[obj].place_id
                      = find_place_details(world, NoFaults, poi_heap[obj].name,
                                           poi_heap[obj].lat).place_id]_vars

\* the rejected lookup happens: a listed POI carries the id of a place that
\* lies farther from it than its category's max_distance_m
C11_Reached ==
    /\ pc = "dedupe"
    /\ \E c \in DOMAIN pois : \E obj \in Range(pois[c]) :
          /\ poi_heap[obj].source = "osm"
          /\ poi_heap[obj].place_id # None
          /\ _haversine_distance(poi_heap[obj].lat, GOOGLE_DATA[poi_heap[obj].place_id].lat)
                > DEFAULT_ENRICHMENT_CONFIG[c].max_distance_m


(***************************************************************************)
(* The analysis service: _get_pois in front of the hybrid provider, with   *)
(* the process-wide caches.                                                *)
(***************************************************************************)

MaxRequests == 2

\* query points of the requests: two points of one ~11 m grid cell
QueryPoints == {Origin, Origin + 4}

\* services.py _get_pois: cache_key (the suffix lists the radius map)
ServiceKey(rq) ==
    << normalize_coords(rq.lat, 4), rq.radius_m, "hybrid", rq.radius_by_category >>

\* the requests _get_pois passes on: enrichment and fallback are left at
\* their defaults
ServiceRequests ==
    {[NoRequest EXCEPT !.lat = lat, !.radius_by_category = rbc,
                       !.enable_enrichment = TRUE, !.enable_fallback = TRUE,
                       !.use_cache = uc] :
        lat \in QueryPoints, rbc \in RadiusMaps, uc \in BOOLEAN}

InitCache ==
    /\ ServiceIdle
    /\ score_pc = "idle"
    /\ scoring_result = NoResult
    /\ verdict_out = NoVerdict
    /\ fn_in = NoCall
    /\ fn_out = NoCall
    /\ pc = "service"
    /\ world \in Worlds
    /\ faults = NoFaults
    /\ req = NoRequest
    /\ pois = EmptyPoiMap
    /\ poi_heap = EmptyDict
    /\ tag_heap = EmptyDict
    /\ attempt = 0
    /\ endpoint_idx = 0
    /\ base_ok = TRUE
    /\ nearby_cache = EmptyDict
    /\ details_cache = EmptyDict
    /\ overpass_cache = EmptyDict
    /\ calls = << >>
    /\ returned = EmptyDict
    /\ served = 0

\* _get_pois: the cached result is returned
CacheHit ==
    /\ pc = "service"
    /\ served < MaxRequests
    /\ \E rq \in ServiceRequests :
          /\ rq.use_cache
          /\ ServiceKey(rq) \in DOMAIN overpass_cache
          /\ req' = rq
          /\ returned' = overpass_cache[ServiceKey(rq)]
    /\ served' = served + 1
    /\ UNCHANGED << pc, world, faults, attempt, endpoint_idx, base_ok,
                    overpass_cache >>
    /\ UNCHANGED storeVars
    /\ UNCHANGED scoreVars
    /\ UNCHANGED serviceVars

\* _get_pois: the hybrid provider is asked, and the result cached
CacheMiss ==
    /\ pc = "service"
    /\ served < MaxRequests
    /\ \E rq \in ServiceRequests, set_order \in SetOrders :
          /\ ~(rq.use_cache /\ ServiceKey(rq) \in DOMAIN overpass_cache)
          /\ req' = rq
          /\ LET Step(st, result) ==
                     /\ SetStore(st)
                     /\ returned' = result
                     /\ overpass_cache' =
                           IF rq.use_cache
                           THEN Put(overpass_cache, ServiceKey(rq), result)
                           ELSE overpass_cache
                 Served(st) == Step(st, Resolve(st.pois, st.heap, st.tags))
             IN Served(get_pois_hybrid(Store, world, NoFaults, NoFaults, rq, TRUE,
                                       set_order))
    /\ served' = served + 1
    /\ UNCHANGED << pc, world, faults, attempt, endpoint_idx, base_ok >>
    /\ UNCHANGED scoreVars
    /\ UNCHANGED serviceVars

NextCache == CacheHit \/ CacheMiss

SpecCache == InitCache /\ [][NextCache]_vars

\* the store of a process without cached entries
FreshStore ==
    [pois |-> EmptyPoiMap, heap |-> EmptyDict, tags |-> EmptyDict,
     ncache |-> EmptyDict, dcache |-> EmptyDict, calls |-> << >>]

\* the maps the request computes with caching disabled
Uncached(rq) ==
    {View(get_pois_hybrid(FreshStore, world, NoFaults, NoFaults, rq, TRUE, o)) :
        o \in SetOrders}

\* C10: caching is transparent: the map returned for a request, each POI's
\* distance_m from the requested point included, is the map computed for the
\* same request with caching disabled, also after an earlier request for
\* another point of the same cache key.
C10_CacheTransparent ==
    (pc = "service" /\ served > 0) => returned \in Uncached(req)

\* the text lookups whose not-found answer is held by the details cache
CachedMisses(dcache) ==
    {key[2] : key \in {k \in DOMAIN dcache : k[1] = "notfound"}}

\* C12, one enrichment pass: no text lookup is issued for a POI whose
\* not-found answer is in the cache when the pass starts
C12_PassStep ==
    \A k \in (Len(calls) + 1)..Len(calls') :
        calls'[k].op = "text" => calls'[k].arg \notin CachedMisses(details_cache)

\* C12: an enrichment miss is cached and not retried: after a lookup for a
\* POI returned not-found, a later enrichment pass over the same POI issues
\* no further commercial lookup for it while the entry is cached.
C12_MissNotRetried == [][C12_PassStep]_vars

\* what the code keeps of C12: a missed lookup leaves its not-found entry in
\* the cache
C12_MissCached ==
    \A k \in 1..Len(calls) :
        (calls[k].op = "text"
            /\ find_place_details(world, NoFaults, calls[k].arg, Origin).kind = "none")
        => calls[k].arg \in CachedMisses(details_cache)

\* the retried miss happens: the same text lookup, unanswered by the
\* provider, was issued in two passes
C12_Reached ==
    /\ served = 2
    /\ \E i, j \in 1..Len(calls) :
          /\ i < j
          /\ calls[i] = calls[j]
          /\ calls[i].op = "text"
          /\ calls[i].arg \in CachedMisses(details_cache)

\* the coverage threshold of a category
CoverageThreshold(c) == DictGet(COVERAGE_THRESHOLDS, c, DEFAULT_COVERAGE_THRESHOLD)

\* the categories scored from a POI list
ScoredPoiCategories == Category \ {"noise", "nature_background"}

\* the POI count of a category in the map the fallback stage receives
CoverageOf(c) == IF c \in DOMAIN pois THEN Len(pois[c]) ELSE 0

\* C13, the fallback step over a set of categories: a query is issued for a
\* category exactly when its count is below its threshold, and what a query
\* adds lies in the category's radius and is tagged as fallback
C13_FallbackStepOver(categories) ==
    (pc = "fallback" /\ pc' = "enrich" /\ req.enable_fallback /\ world.api_key) =>
        /\ \A c \in categories :
              Call("nearby", c) \in CallsSince(calls, [calls |-> calls'])
                 <=> CoverageOf(c) < CoverageThreshold(c)
        /\ \A c \in DOMAIN pois' :
              \A obj \in Range(pois'[c]) \ (IF c \in DOMAIN pois THEN Range(pois[c]) ELSE {}) :
                 /\ poi_heap'[obj].distance_m <= CategoryRadius(c)
                 /\ poi_heap'[obj].source = "google_fallback"
                 /\ tag_heap'[poi_heap'[obj].tags].source = "google_fallback"

\* C13: with fallback enabled and the commercial adapter configured, a
\* fallback query is issued for a category if and only if its POI count after
\* the per-category radius filter is below its coverage threshold (3 food,
\* 5 shops, 2 otherwise), for every scored category, leisure included; every
\* POI a fallback query adds lies within the category's radius and is tagged
\* as commercial fallback.
C13_FallbackIffUnderCovered == [][C13_FallbackStepOver(ScoredPoiCategories)]_vars

\* what the code keeps of C13: the same for the categories of FALLBACK_TYPES,
\* and no query for any other category
C13_Observed ==
    [][/\ C13_FallbackStepOver(Range(FallbackOrder))
       /\ \A k \in (Len(calls) + 1)..Len(calls') :
             calls'[k].op = "nearby" => calls'[k].arg \in Range(FallbackOrder)]_vars

\* the under-covered category without a query happens: the fallback ran,
\* added a POI elsewhere, and leisure is empty and was never asked for
C13_Reached ==
    /\ pc = "enrich"
    /\ req.enable_fallback /\ world.api_key
    /\ pois["leisure"] = << >>
    /\ Call("nearby", "leisure") \notin Range(calls)
    /\ Call("nearby", "shops") \in Range(calls)
    /\ \E c \in DOMAIN pois : \E i \in 1..Len(pois[c]) :
          poi_heap[pois[c][i]].source = "google_fallback"

(***************************************************************************)
(* Single calls of the scoring functions: the arguments are drawn by the   *)
(* initial state, one action per function applies it.                      *)
(***************************************************************************)

\* largest distance of the distance_score calls, metres
MaxDistance == 110

\* radii of the distance_score calls
ScoreRadii == {40, 100}

\* distance_score is called twice, for two distances d1 <= d2 of one radius
\* and decay mode
DistanceScoreCalls ==
    {[fn |-> "distance_score", d1 |-> d1, d2 |-> d2, r |-> r, mode |-> m] :
        d1 \in 0..MaxDistance, d2 \in 0..MaxDistance, r \in ScoreRadii,
        m \in DecayModes}

\* ratings (tenths) and review counts of the quality multiplier calls
RatingVals == {NoNum, 0, 10, 20, 25, 30, 44, 50}

ReviewVals == {NoNum, 0, 10, 100, 200, 500}

QualityCalls ==
    {[fn |-> "quality_multiplier",
      poi |-> [tags |-> ScoreTags(rating, urt, rc, low, FALSE)]] :
        rating \in RatingVals, urt \in ReviewVals, rc \in {NoNum, 0, 50},
        low \in BOOLEAN}

\* most POIs in an enumerated category list
MaxScorePois == 2

ScoreProfiles == {"urban", "quiet_green"}

ScoreCategories == {"shops", "food", "leisure"}

\* distances of the POIs of the category calls: near, 0.8 of a radius, the
\* radii of the profiles above, and beyond
ScoreDistances == {100, 480, 600, 800, 900, 1200}

ScorePoiCandidates ==
    {[distance_m |-> d, tags |-> t] :
        d \in ScoreDistances, t \in {PlainTags, RatedTags, NamelessTags}}

\* the per-category step of calculate() for one category of one profile
CategoryCalls ==
    {[fn |-> "category_score", profile_key |-> k, category |-> c, poi_list |-> p] :
        k \in ScoreProfiles, c \in ScoreCategories,
        p \in SeqsUpTo(ScorePoiCandidates, MaxScorePois)
               \cup {DensePois(n, 100, PlainTags) : n \in {3, 6, 12}}}

\* total scores of the generate calls: the ends of the scale and every whole
\* score around the thresholds of the profiles
VerdictScores == {0, 100} \cup 38..67

\* critical_caps_applied lists of the generate calls
CapsLists ==
    {<< >>,
     << [category |-> "transport", cat_score |-> 0, threshold |-> 35, cap |-> 65] >>}

\* generate is called twice, for two total scores s1 <= s2 of one profile and
\* one critical_caps_applied list
GenerateCalls ==
    {[fn |-> "generate", profile_key |-> k, s1 |-> s1, s2 |-> s2,
      critical_caps_applied |-> caps] :
        k \in ProfileKeys, s1 \in VerdictScores, s2 \in VerdictScores,
        caps \in CapsLists}

\* the ScoringResult fields generate() reads for the level
ResultWithScore(total_score, critical_caps_applied) ==
    [total_score |-> total_score, scale |-> 1,
     critical_caps_applied |-> critical_caps_applied]

\* the road types and the distances around the gates of the quiet strength
GateRoadTypes ==
    {"primary", "secondary", "motorway", "trunk", "rail", "tram", "tertiary"}

GateDistances == {0, 200, 201, 250, 251, 300, 301, 600, 601}

\* n local roads beyond every gate distance
TertiaryRow(n) == [i \in 1..n |-> [subcategory |-> "tertiary", distance_m |-> 700 + i]]

\* road lists sorted by distance: none, one road, a road at the point itself
\* followed by one of the same type, and rows of nine and ten local roads
GateRoadInputs ==
    {<< >>, TertiaryRow(9), TertiaryRow(10)}
       \cup {<< [subcategory |-> t, distance_m |-> d] >> :
                 t \in GateRoadTypes, d \in GateDistances}
       \cup {<< [subcategory |-> t, distance_m |-> 0],
                [subcategory |-> t, distance_m |-> 100] >> : t \in GateRoadTypes}

\* calls of calculate() that differ in the roads, the quiet score and the
\* number of categories with a high score
HighlightCalls ==
    [fn : {"calculate_highlights"}, profile_key : ProfileKeys,
     poi_kind : {"empty", "dense"}, quiet_score : {69, 70, 100},
     roads : GateRoadInputs]

\* the calls of one function
FnCalls(kind) ==
    CASE kind = "distance_score" -> {c \in DistanceScoreCalls : c.d1 <= c.d2}
      [] kind = "quality_multiplier" -> QualityCalls
      [] kind = "category_score" -> CategoryCalls
      [] kind = "generate" -> {c \in GenerateCalls : c.s1 <= c.s2}
      [] kind = "_validate_fallback_types" -> {[fn |-> "_validate_fallback_types"]}
      [] kind = "calculate_highlights" -> HighlightCalls

FnKinds ==
    {"distance_score", "quality_multiplier", "category_score", "generate",
     "_validate_fallback_types", "calculate_highlights"}

InitFn ==
    /\ ServiceIdle
    /\ score_pc = "idle"
    /\ scoring_result = NoResult
    /\ verdict_out = NoVerdict
    /\ \E kind \in FnKinds : fn_in \in FnCalls(kind)
    /\ fn_out = NoCall
    /\ HybridIdle

ApplyDistanceScore ==
    /\ fn_in.fn = "distance_score"
    /\ fn_out = NoCall
    /\ fn_out' = [fn |-> "distance_score",
                  s1 |-> distance_score(fn_in.d1, fn_in.r, fn_in.mode),
                  s2 |-> distance_score(fn_in.d2, fn_in.r, fn_in.mode)]
    /\ UNCHANGED << score_pc, scoring_result, verdict_out, fn_in >>
    /\ UNCHANGED hybridVars
    /\ UNCHANGED serviceVars

ApplyQualityMultiplier ==
    /\ fn_in.fn = "quality_multiplier"
    /\ fn_out = NoCall
    /\ fn_out' = [fn |-> "quality_multiplier",
                  final_mult |-> _calculate_quality_multiplier(fn_in.poi)]
    /\ UNCHANGED << score_pc, scoring_result, verdict_out, fn_in >>
    /\ UNCHANGED hybridVars
    /\ UNCHANGED serviceVars

ApplyCategoryScore ==
    /\ fn_in.fn = "category_score"
    /\ fn_out = NoCall
    /\ fn_out' = [fn |-> "category_score",
                  result |-> CategoryStep(PROFILE_REGISTRY[fn_in.profile_key],
                                          fn_in.category, fn_in.poi_list,
                                          NoMetrics)]
    /\ UNCHANGED << score_pc, scoring_result, verdict_out, fn_in >>
    /\ UNCHANGED hybridVars
    /\ UNCHANGED serviceVars

ApplyGenerate ==
    /\ fn_in.fn = "generate"
    /\ fn_out = NoCall
    /\ fn_out' = [fn |-> "generate",
                  v1 |-> generate(ResultWithScore(fn_in.s1, fn_in.critical_caps_applied),
                                  PROFILE_REGISTRY[fn_in.profile_key]),
                  v2 |-> generate(ResultWithScore(fn_in.s2, fn_in.critical_caps_applied),
                                  PROFILE_REGISTRY[fn_in.profile_key])]
    /\ UNCHANGED << score_pc, scoring_result, verdict_out, fn_in >>
    /\ UNCHANGED hybridVars
    /\ UNCHANGED serviceVars

\* the import of hybrid_poi_provider.py runs _validate_fallback_types()
ApplyValidateFallbackTypes ==
    /\ fn_in.fn = "_validate_fallback_types"
    /\ fn_out = NoCall
    /\ fn_out' = [fn |-> "_validate_fallback_types",
                  raised |-> _validate_fallback_types(FALLBACK_TYPES, FallbackOrder)]
    /\ UNCHANGED << score_pc, scoring_result, verdict_out, fn_in >>
    /\ UNCHANGED hybridVars
    /\ UNCHANGED serviceVars

\* the POI map of a highlight call: the same list in every scored category
HighlightPois(call) ==
    [c \in ScoredCategories(PROFILE_REGISTRY[call.profile_key]) |->
        PoiListOf(call.poi_kind, get_radius(PROFILE_REGISTRY[call.profile_key], c))]

\* engine.calculate(pois_by_category, quiet_score): what it reports as
\* strengths and weaknesses
ApplyCalculateHighlights ==
    /\ fn_in.fn = "calculate_highlights"
    /\ fn_out = NoCall
    /\ LET profile == PROFILE_REGISTRY[fn_in.profile_key]
           result == calculate(profile,
                               CategoryLoop(profile, HighlightPois(fn_in), NoMetrics),
                               fn_in.quiet_score, fn_in.roads, NoNum)
       IN fn_out' = [fn |-> "calculate_highlights",
                     strengths |-> result.strengths,
                     weaknesses |-> result.weaknesses,
                     roads_debug |-> result.roads_debug,
                     category_scores |-> result.category_scores]
    /\ UNCHANGED << score_pc, scoring_result, verdict_out, fn_in >>
    /\ UNCHANGED hybridVars
    /\ UNCHANGED serviceVars

NextFn ==
    \/ ApplyCalculateHighlights
    \/ ApplyDistanceScore
    \/ ApplyQualityMultiplier
    \/ ApplyCategoryScore
    \/ ApplyGenerate
    \/ ApplyValidateFallbackTypes

SpecFn == InitFn /\ [][NextFn]_vars

\* C14: for every decay mode and every radius r > 0, distance_score(d, r,
\* mode) is 0 whenever d >= r, lies in [0, 100], and is non-increasing in d.
C14_DistanceScoreMonotone ==
    fn_out.fn = "distance_score" =>
        /\ fn_in.d1 >= fn_in.r => fn_out.s1 = 0
        /\ fn_in.d2 >= fn_in.r => fn_out.s2 = 0
        /\ fn_out.s1 \in 0..100
        /\ fn_out.s2 \in 0..100
        /\ fn_out.s1 >= fn_out.s2

\* C14 happens: a distance inside the radius scores more than a farther one,
\* and the radius itself scores 0
C14_Witness ==
    /\ fn_out.fn = "distance_score"
    /\ fn_in.d1 < fn_in.d2
    /\ fn_in.d2 = fn_in.r
    /\ fn_out.s1 > 0
    /\ fn_out.s2 = 0

\* the POI of the call has a rating and no reviews: neither count is set, or
\* the one that is read is zero
RatedWithoutReviews(poi) ==
    /\ TruthyNum(poi.tags.rating)
    /\ ~TruthyNum(poi.tags.user_ratings_total)
    /\ ~TruthyNum(poi.tags.reviews_count)

\* C17: for a POI that has a rating but a review count of zero or none, the
\* quality multiplier is exactly 1.0 whatever the rating; for a POI flagged
\* low_reviews the multiplier is never above 1.0.
C17_QualityNeutral ==
    fn_out.fn = "quality_multiplier" =>
        /\ RatedWithoutReviews(fn_in.poi) => fn_out.final_mult = QualityUnit
        /\ fn_in.poi.tags.low_reviews => fn_out.final_mult <= QualityUnit

\* what the code keeps of C17: without reviews the rating acts with the
\* confidence 0.3, and the low_reviews part holds
C17_Observed ==
    fn_out.fn = "quality_multiplier" =>
        /\ RatedWithoutReviews(fn_in.poi) =>
              fn_out.final_mult =
                 QualityUnit + 60 * (IF fn_in.poi.tags.low_reviews
                                     THEN Min(4 * fn_in.poi.tags.rating - 100, 0)
                                     ELSE 4 * fn_in.poi.tags.rating - 100)
        /\ fn_in.poi.tags.low_reviews => fn_out.final_mult <= QualityUnit

\* a rated POI without reviews gets a bonus: rating 4.4, multiplier 1.0228
C17_Reached ==
    /\ fn_out.fn = "quality_multiplier"
    /\ RatedWithoutReviews(fn_in.poi)
    /\ fn_in.poi.tags.rating = 44
    /\ fn_out.final_mult = 204560

\* the radius of the category of a category call
CallRadius(call) == get_radius(PROFILE_REGISTRY[call.profile_key], call.category)

\* the POIs of a category call that pass the radius filter
InRadius(call) ==
    SelectSeq(call.poi_list, LAMBDA p : p.distance_m <= CallRadius(call))

\* C15: for every POI-list category with at least one POI that passes the
\* radius filter (distance_m <= category radius), the category score is
\* strictly greater than 0.
C15_ContentNeverZero ==
    fn_out.fn = "category_score" =>
        (InRadius(fn_in) # << >> => fn_out.result.score > 0)

\* what the code keeps of C15: the distance factor is at least 0.4, and the
\* score is positive exactly when a POI lies strictly inside the radius; a
\* POI at the radius itself counts as content and contributes 0
C15_Observed ==
    fn_out.fn = "category_score" =>
        /\ InRadius(fn_in) # << >> =>
              _distance_factor(fn_out.result.nearest_distance_m, CallRadius(fn_in),
                               get_decay_mode(PROFILE_REGISTRY[fn_in.profile_key],
                                              fn_in.category))
                 >= MIN_DISTANCE_FACTOR1000
        /\ fn_out.result.score > 0
              <=> \E i \in 1..Len(fn_in.poi_list) :
                     fn_in.poi_list[i].distance_m < CallRadius(fn_in)

\* one shop exactly at the shops radius of the urban profile: it passes the
\* filter, it is the nearest POI, and the category scores 0
C15_Reached ==
    /\ fn_out.fn = "category_score"
    /\ fn_in.profile_key = "urban"
    /\ fn_in.category = "shops"
    /\ fn_in.poi_list = << [distance_m |-> 600, tags |-> PlainTags] >>
    /\ fn_out.result.poi_count = 1
    /\ fn_out.result.nearest_distance_m = 600
    /\ fn_out.result.utility_sum = 0
    /\ fn_out.result.score = 0

\* the call of the scenario: shops with radius 600 and exactly one named,
\* unrated shop at 100 m
C18_Scenario ==
    /\ fn_in.fn = "category_score"
    /\ fn_in.category = "shops"
    /\ CallRadius(fn_in) = 600
    /\ Len(fn_in.poi_list) = 1
    /\ fn_in.poi_list[1].distance_m = 100
    /\ ~fn_in.poi_list[1].tags.nameless
    /\ ~TruthyNum(fn_in.poi_list[1].tags.rating)

\* C18: for shops with radius 600 and exactly one named, unrated shop at
\* 100 m the engine computes distance score 100, quality and nameless
\* multipliers 1.0, utility_sum 100, coverage bonus 0, distance factor 1.0 and
\* the category score 100 * (1 - e^(-0.6)) = 45.1188..., about 45.
C18_SingleShopScore ==
    (C18_Scenario /\ fn_out.fn = "category_score") =>
        /\ Len(fn_out.result.contributions) = 1
        /\ fn_out.result.contributions[1].distance_score = 100
        /\ fn_out.result.contributions[1].quality_multiplier = 10 * QualityUnit
        /\ fn_out.result.utility_sum = 100 * ContributionUnit
        /\ fn_out.result.coverage_bonus = 0
        /\ _distance_factor(fn_out.result.nearest_distance_m, 600, "daily") = 1000
        /\ Abs(fn_out.result.utility_score - 45118836) <= 100
        /\ fn_out.result.score = 4511

\* C18 happens: the urban profile scored the single shop
C18_Witness ==
    /\ C18_Scenario
    /\ fn_in.profile_key = "urban"
    /\ fn_out.fn = "category_score"
    /\ fn_out.result.poi_count = 1
    /\ fn_out.result.score = 4511

\* the profile of the last calculate()
CallProfile == PROFILE_REGISTRY[fn_in.profile_key]

\* the POIs the call holds for a category that pass its radius filter
CallPoisInRadius(c) ==
    SelectSeq(DictGet(fn_in.pois_by_category, c, << >>),
              LAMBDA p : p.distance_m <= get_radius(CallProfile, c))

\* the scored categories without content: no POI in the radius and, for
\* nature_background, no metrics
EmptyCategories ==
    {c \in DOMAIN scoring_result.category_results :
        /\ CallPoisInRadius(c) = << >>
        /\ c = "nature_background" => fn_in.nature_metrics = NoMetrics}

\* the weighted sum of the scores of the categories with content, in 1/10000
NumeratorOfContent ==
    SumSeq([c \in DOMAIN CallProfile.weights |->
                IF c = "noise" \/ c \in EmptyCategories THEN 0
                ELSE CallProfile.weights[c]
                        * DictGet(scoring_result.category_scores, c, 0)],
           KeysInOrder(CallProfile.weights))

\* C16: a category with zero POIs in radius and no background metrics gets a
\* result with score 0, utility_score 0, utility_sum 0, coverage_bonus 0,
\* poi_count 0 and no nearest distance, and adds exactly 0 to the weighted
\* numerator of base_score whatever its weight, while the denominator is the
\* sum of all positive weights.
C16_EmptyCategoryZero ==
    score_pc # "idle" =>
        /\ \A c \in EmptyCategories :
              /\ scoring_result.category_results[c].score = 0
              /\ scoring_result.category_results[c].utility_score = 0
              /\ scoring_result.category_results[c].utility_sum = 0
              /\ scoring_result.category_results[c].coverage_bonus = 0
              /\ scoring_result.category_results[c].poi_count = 0
              /\ scoring_result.category_results[c].nearest_distance_m = NoNum
              /\ scoring_result.category_scores[c] = 0
        /\ scoring_result.scale = 1000 * TotalPositiveWeight(CallProfile)
        /\ scoring_result.base_score = 10 * NumeratorOfContent

\* C16 happens: the family profile, its education list (weight 0.25) holds one
\* POI beyond the radius and nothing else, the other categories have content
C16_Witness ==
    /\ score_pc = "scored"
    /\ fn_in.profile_key = "family"
    /\ Len(fn_in.pois_by_category["education"]) = 1
    /\ EmptyCategories = {"education"}
    /\ get_weight(CallProfile, "education") > 0
    /\ scoring_result.category_results["education"].score = 0
    /\ scoring_result.base_score > 0

\* C19: every category score of a ScoringResult lies in [0, 100] and
\* total_score lies in [0, 100]; without a baseline and with no cap firing,
\* total_score equals base_score - noise_penalty - roads_penalty clamped to
\* [0, 100].
C19_ScoresInRange ==
    score_pc # "idle" =>
        /\ \A c \in DOMAIN scoring_result.category_scores :
              scoring_result.category_scores[c] \in 0..10000
        /\ \A c \in DOMAIN scoring_result.category_results :
              scoring_result.category_results[c].score \in 0..10000
        /\ scoring_result.total_score >= 0
        /\ scoring_result.total_score <= 100 * scoring_result.scale
        /\ (fn_in.base_neighborhood_score = NoNum
               /\ scoring_result.critical_caps_applied = << >>)
              => scoring_result.total_score =
                    Max(0, Min(100 * scoring_result.scale,
                               scoring_result.base_score
                                  - scoring_result.noise_penalty
                                  - scoring_result.roads_penalty))

\* C19 happens: without a baseline and without a cap the penalties exceed the
\* base score and the total is clamped to 0, while a category scores 100
C19_Witness ==
    /\ score_pc = "scored"
    /\ fn_in.base_neighborhood_score = NoNum
    /\ scoring_result.critical_caps_applied = << >>
    /\ scoring_result.base_score - scoring_result.noise_penalty
          - scoring_result.roads_penalty < 0
    /\ scoring_result.total_score = 0
    /\ \E c \in DOMAIN scoring_result.category_results :
          scoring_result.category_results[c].score = 10000

\* not_recommended < conditional < recommended
LevelRank(level) ==
    CASE level = "not_recommended" -> 0
      [] level = "conditional" -> 1
      [] level = "recommended" -> 2

\* C20: for a fixed profile and a fixed critical_caps_applied list, for any
\* two total scores s1 <= s2 the level of the verdict for s2 is never lower
\* than the level for s1 in the order not_recommended < conditional <
\* recommended.
C20_VerdictMonotone ==
    fn_out.fn = "generate" =>
        LevelRank(fn_out.v1.level) <= LevelRank(fn_out.v2.level)

\* C20 happens: with an applied cap, a score in the conditional band and a
\* higher score at the recommended threshold both get `conditional`; without
\* caps the level rises
C20_Witness ==
    /\ fn_out.fn = "generate"
    /\ fn_in.s1 < fn_in.s2
    /\ fn_in.s1 >= PROFILE_REGISTRY[fn_in.profile_key].thresholds.conditional
    /\ fn_in.s1 < PROFILE_REGISTRY[fn_in.profile_key].thresholds.recommended
    /\ fn_in.s2 >= PROFILE_REGISTRY[fn_in.profile_key].thresholds.recommended
    /\ fn_in.critical_caps_applied # << >>
    /\ fn_out.v1.level = "conditional"
    /\ fn_out.v2.level = "conditional"

(***************************************************************************)
(*                 PART IV  -  THE DATA QUALITY REPORT                     *)
(* data_quality.py.  Confidences are whole percents; the profile weights   *)
(* are in hundredths, so the test weight < 0.10 reads weight < 10.  A dict *)
(* argument that is None or {} (both falsy) is the empty function.         *)
(***************************************************************************)

NoDict == << >>

\* calculate_confidence: the default of important_categories
IMPORTANT_CATEGORIES == << "shops", "transport", "education", "health", "nature_place" >>

\* the order in which the model walks a set of category names: the known
\* categories, then roads
QualityOrder == CategoryOrder \o << "roads" >>

\* data_quality.py CategoryCoverage
CategoryCoverage(source, status, raw_count, kept_count, radius_m, subcategory_distribution, rejects, provider_errors, had_provider_error) ==
    [source |-> source, status |-> status, raw_count |-> raw_count,
     kept_count |-> kept_count, radius_m |-> radius_m,
     subcategory_distribution |-> subcategory_distribution,
     rejects |-> rejects, provider_errors |-> provider_errors,
     had_provider_error |-> had_provider_error]

\* determine_status that reports every provider failure as an error, whatever
\* was kept
determine_status_any_failure(kept_count, raw_count, had_provider_error) ==
    IF had_provider_error THEN "error"
    ELSE IF kept_count >= 3 THEN "ok"
    ELSE IF kept_count >= 1 THEN "partial"
    ELSE "empty"

\* data_quality.py determine_status
determine_status(kept_count, raw_count, had_provider_error) ==
    IF had_provider_error /\ kept_count = 0 THEN "error"
    ELSE IF kept_count >= 3 THEN "ok"
    ELSE IF kept_count >= 1 THEN "partial"
    ELSE "empty"

\* calculate_confidence: the provider component and its reason
ProviderConfidence(overpass_status) ==
    IF overpass_status = "timeout"
    THEN [confidence |-> 100 - 15, reasons |-> << [reason |-> "osm_delayed"] >>]
    ELSE IF overpass_status = "error"
    THEN [confidence |-> 100 - 30, reasons |-> << [reason |-> "osm_error"] >>]
    ELSE [confidence |-> 100, reasons |-> << >>]

\* calculate_confidence: the important categories whose coverage has status
\* error, in the order of the list
ErrorCategories(coverage, important_categories) ==
    SelectSeq(important_categories,
              LAMBDA c : c \in DOMAIN coverage /\ coverage[c].status = "error")

\* calculate_confidence: the data component and its reasons
DataConfidence(coverage, important_categories) ==
    [confidence |-> 100 - 20 * Len(ErrorCategories(coverage, important_categories)),
     reasons |-> [i \in 1..Len(ErrorCategories(coverage, important_categories)) |->
                     [reason |-> "no_data",
                      category |-> ErrorCategories(coverage, important_categories)[i]]]]

\* calculate_confidence: the categories the signal loop does not skip
SignalCategories(important_categories, profile_weights) ==
    SelectSeq(QualityOrder,
              LAMBDA c : /\ c \in Range(important_categories) \cup DOMAIN profile_weights
                         /\ Abs(DictGet(profile_weights, c, 0)) >= 10)

\* the signal component that penalises every empty category, whatever its
\* weight
SignalConfidence_any_weight(coverage, important_categories, profile_weights) ==
    LET empty == SelectSeq(QualityOrder, LAMBDA c : c \in DOMAIN coverage /\ coverage[c].status = "empty")
    IN [confidence |-> 100 - 15 * Len(empty),
        reasons |-> [i \in 1..Len(empty) |->
                        [reason |-> "no_objects", category |-> empty[i],
                         radius_m |-> coverage[empty[i]].radius_m]]]

\* calculate_confidence: the signal component and its reasons; the code walks
\* a set, the model walks it in QualityOrder
SignalConfidence(coverage, important_categories, profile_weights) ==
    LET cats == IF DOMAIN profile_weights = {} THEN << >>
                ELSE SignalCategories(important_categories, profile_weights)
        empty == SelectSeq(cats, LAMBDA c : c \in DOMAIN coverage /\ coverage[c].status = "empty")
        sparse == SelectSeq(cats, LAMBDA c : /\ c \in DOMAIN coverage
                                             /\ coverage[c].status = "partial"
                                             /\ coverage[c].kept_count < 2)
    IN [confidence |-> 100 - 15 * Len(empty) - 5 * Len(sparse),
        reasons |-> [i \in 1..Len(empty) |->
                        [reason |-> "no_objects", category |-> empty[i],
                         radius_m |-> coverage[empty[i]].radius_m]]]

\* max(0, min(100, x))
ClampPct(x) == Max(0, Min(100, x))

\* data_quality.py calculate_confidence: (total, reasons[:5], components);
\* int(0.4 * p + 0.3 * d + 0.3 * s) is the floor of (4p + 3d + 3s) / 10 for
\* the multiples of 5 the components are
calculate_confidence(coverage, overpass_status, important_categories, profile_weights) ==
    LET Total(provider, data, signal, reasons) ==
            [total |-> ClampPct((4 * provider + 3 * data + 3 * signal) \div 10),
             reasons |-> SubSeq(reasons, 1, Min(5, Len(reasons))),
             components |-> [provider_confidence |-> provider,
                             data_confidence |-> data,
                             signal_confidence |-> signal]]
        Combine(p, d, s) ==
            Total(ClampPct(p.confidence), ClampPct(d.confidence),
                  ClampPct(s.confidence), p.reasons \o d.reasons \o s.reasons)
    IN Combine(ProviderConfidence(overpass_status),
               DataConfidence(coverage, important_categories),
               SignalConfidence(coverage, important_categories, profile_weights))

\* build_data_quality_report: subcategory_dist of a POI list; a POI without a
\* subcategory counts as 'unknown'
SubcategoryDistribution(poi_list) ==
    LET SubOf(poi) == IF poi.subcategory = None THEN "unknown" ELSE poi.subcategory
    IN [sub \in {SubOf(poi_list[i]) : i \in 1..Len(poi_list)} |->
           Len(SelectSeq(poi_list, LAMBDA p : SubOf(p) = sub))]

\* build_data_quality_report: the body of the loop for one category
CategoryCoverageOf(cat, pois_by_category, radii, overpass_status, fallback_started, fallback_contributed, raw_counts, reject_counts, provider_errors_by_category) ==
    LET poi_list == DictGet(pois_by_category, cat, << >>)
        kept_count == Len(poi_list)
        raw == DictGet(raw_counts, cat, kept_count)
        cat_errors == DictGet(provider_errors_by_category, cat, << >>)
        source == IF cat \in Range(fallback_started) /\ cat \in Range(fallback_contributed)
                  THEN (IF raw > 0 THEN "mixed" ELSE "google")
                  ELSE "overpass"
        was_queried == cat \in DOMAIN pois_by_category
        had_error == cat_errors # << >> \/ (overpass_status = "error" /\ was_queried)
        cat_status == IF ~was_queried /\ ~had_error THEN "no_query"
                      ELSE determine_status(kept_count, raw, had_error)
    IN CategoryCoverage(source, cat_status, raw, kept_count,
                        DictGet(radii, cat, 1000),
                        SubcategoryDistribution(poi_list),
                        DictGet(reject_counts, cat, NoDict),
                        cat_errors, had_error)

\* data_quality.py DataQualityReport as build_data_quality_report fills it;
\* the code walks a set of categories, the model walks it in QualityOrder
build_data_quality_report(pois_by_category, radii, overpass_status, overpass_had_retry, fallback_started, fallback_contributed, cache_used, raw_counts, reject_counts, provider_errors_by_category, profile_weights) ==
    LET Report(coverage, confidence) ==
            [confidence_pct |-> confidence.total,
             reasons |-> confidence.reasons,
             overpass_status |-> overpass_status,
             overpass_had_retry |-> overpass_had_retry,
             fallback_started |-> fallback_started,
             fallback_contributed |-> fallback_contributed,
             coverage |-> coverage,
             cache_used |-> cache_used,
             confidence_components |-> confidence.components,
             empty_categories |->
                 SelectSeq(QualityOrder, LAMBDA c : c \in DOMAIN coverage /\ coverage[c].status = "empty"),
             error_categories |->
                 SelectSeq(QualityOrder, LAMBDA c : c \in DOMAIN coverage /\ coverage[c].status = "error")]
        Confide(coverage) ==
            Report(coverage,
                   calculate_confidence(coverage, overpass_status,
                                        IMPORTANT_CATEGORIES, profile_weights))
    IN Confide([cat \in DOMAIN pois_by_category \cup DOMAIN radii |->
                   CategoryCoverageOf(cat, pois_by_category, radii, overpass_status,
                              fallback_started, fallback_contributed, raw_counts,
                              reject_counts, provider_errors_by_category)])

(***************************************************************************)
(* Single calls of the data quality functions.                             *)
(***************************************************************************)

\* categories of the coverage maps of the confidence calls: important ones
\* and others, with weights below, at and above 0.10 in the profiles used
CoverageCategories == {"shops", "transport", "education", "food"}

\* the coverage of a category as build_data_quality_report leaves it
CoverageWithStatus(status, kept_count, radius_m) ==
    CategoryCoverage("overpass", status, kept_count, kept_count, radius_m,
                     NoDict, NoDict,
                     IF status = "error" THEN << "timeout_504" >> ELSE << >>,
                     status = "error")

CoverageEntries ==
    {CoverageWithStatus("ok", 3, 700), CoverageWithStatus("partial", 1, 700),
     CoverageWithStatus("empty", 0, 700), CoverageWithStatus("error", 0, 700)}

CoverageMaps ==
    UNION {[cats -> CoverageEntries] : cats \in SUBSET CoverageCategories}

OverpassStatuses == {"ok", "timeout", "error"}

\* profile_weights of the calls: none, or the weights of a profile
WeightInputs == {NoDict, PROFILE_REGISTRY["urban"].weights, PROFILE_REGISTRY["family"].weights}

\* calculate_confidence is called for a coverage map and for the maps that
\* differ from it only in the status of one category
ConfidenceCalls ==
    {[fn |-> "calculate_confidence", coverage |-> cov, category |-> c,
      overpass_status |-> st, profile_weights |-> w] :
        cov \in CoverageMaps, c \in CoverageCategories, st \in OverpassStatuses,
        w \in WeightInputs}

\* a POI list of n POIs, the first with a subcategory
CountedPois(n) == [i \in 1..n |-> [subcategory |-> IF i = 1 THEN "supermarket" ELSE None]]

\* pois_by_category of the report calls: some of these categories were
\* queried (roads has no radius in a profile), with 0..3 POIs kept
QueriedCategories == {"shops", "food", "roads"}

PoiCountMaps ==
    UNION {[cats -> {CountedPois(n) : n \in 0..3}] : cats \in SUBSET QueriedCategories}

\* provider_errors_by_category: for a queried or for a never queried category
ProviderErrorInputs ==
    {NoDict, "shops" :> << "timeout_504" >>, "leisure" :> << "timeout_504" >>}

\* fallback_started, fallback_contributed and raw_counts
FallbackInputs ==
    {<< << >>, << >>, NoDict >>, << << "shops" >>, << >>, "shops" :> 5 >>,
     << << "shops" >>, << "shops" >>, NoDict >>}

\* overpass_had_retry, cache_used, reject_counts and profile_weights
MetaInputs ==
    {<< FALSE, FALSE, NoDict, NoDict >>,
     << TRUE, TRUE, "shops" :> [radius |-> 2], PROFILE_REGISTRY["family"].weights >>}

ReportCalls ==
    {[fn |-> "build_data_quality_report", pois_by_category |-> pm,
      radii |-> PROFILE_REGISTRY["family"].radius_m, overpass_status |-> st,
      overpass_had_retry |-> meta[1], fallback_started |-> fb[1],
      fallback_contributed |-> fb[2], cache_used |-> meta[2],
      raw_counts |-> fb[3], reject_counts |-> meta[3],
      provider_errors_by_category |-> errs, profile_weights |-> meta[4]] :
        pm \in PoiCountMaps, st \in OverpassStatuses, fb \in FallbackInputs,
        meta \in MetaInputs,
        errs \in ProviderErrorInputs}

InitQuality ==
    /\ ServiceIdle
    /\ score_pc = "idle"
    /\ scoring_result = NoResult
    /\ verdict_out = NoVerdict
    /\ \/ fn_in \in {c \in ConfidenceCalls : c.category \in DOMAIN c.coverage}
       \/ fn_in \in ReportCalls
    /\ fn_out = NoCall
    /\ HybridIdle

\* the coverage map with the status of one category replaced
WithStatus(coverage, category, status) ==
    [coverage EXCEPT ![category].status = status]

ApplyConfidence ==
    /\ fn_in.fn = "calculate_confidence"
    /\ fn_out = NoCall
    /\ fn_out' = [fn |-> "calculate_confidence",
                  as_given |-> calculate_confidence(fn_in.coverage, fn_in.overpass_status, IMPORTANT_CATEGORIES, fn_in.profile_weights),
                  as_ok |-> calculate_confidence(WithStatus(fn_in.coverage, fn_in.category, "ok"), fn_in.overpass_status, IMPORTANT_CATEGORIES, fn_in.profile_weights),
                  as_empty |-> calculate_confidence(WithStatus(fn_in.coverage, fn_in.category, "empty"), fn_in.overpass_status, IMPORTANT_CATEGORIES, fn_in.profile_weights),
                  as_error |-> calculate_confidence(WithStatus(fn_in.coverage, fn_in.category, "error"), fn_in.overpass_status, IMPORTANT_CATEGORIES, fn_in.profile_weights)]
    /\ UNCHANGED << score_pc, scoring_result, verdict_out, fn_in >>
    /\ UNCHANGED hybridVars
    /\ UNCHANGED serviceVars

ApplyReport ==
    /\ fn_in.fn = "build_data_quality_report"
    /\ fn_out = NoCall
    /\ fn_out' = [fn |-> "build_data_quality_report",
                  report |-> build_data_quality_report(
                      fn_in.pois_by_category, fn_in.radii, fn_in.overpass_status,
                      fn_in.overpass_had_retry, fn_in.fallback_started,
                      fn_in.fallback_contributed, fn_in.cache_used,
                      fn_in.raw_counts, fn_in.reject_counts,
                      fn_in.provider_errors_by_category, fn_in.profile_weights)]
    /\ UNCHANGED << score_pc, scoring_result, verdict_out, fn_in >>
    /\ UNCHANGED hybridVars
    /\ UNCHANGED serviceVars

NextQuality == ApplyConfidence \/ ApplyReport

SpecQuality == InitQuality /\ [][NextQuality]_vars

\* the weight calculate_confidence reads for the category of the call
CallWeight == Abs(DictGet(fn_in.profile_weights, fn_in.category, 0))

\* C21: for two coverage maps that differ only in one category being empty
\* instead of ok, calculate_confidence returns the same confidence whenever
\* the category's profile weight is below 0.10 or no profile weights are
\* given; the confidence differs only for a weight >= 0.10, and then the
\* provider and data components are equal and the signal component differs.
C21_EmptyLowWeightNeutral ==
    fn_out.fn = "calculate_confidence" =>
        /\ (DOMAIN fn_in.profile_weights = {} \/ CallWeight < 10)
              => fn_out.as_empty.total = fn_out.as_ok.total
        /\ fn_out.as_empty.total # fn_out.as_ok.total
              => /\ CallWeight >= 10
                 /\ fn_out.as_empty.components.provider_confidence
                       = fn_out.as_ok.components.provider_confidence
                 /\ fn_out.as_empty.components.data_confidence
                       = fn_out.as_ok.components.data_confidence
                 /\ fn_out.as_empty.components.signal_confidence
                       # fn_out.as_ok.components.signal_confidence

\* C21 happens: with the family weights food (0.03) is empty next to an
\* empty shops (0.14) that does lower the confidence
C21_Witness ==
    /\ fn_out.fn = "calculate_confidence"
    /\ fn_in.profile_weights = PROFILE_REGISTRY["family"].weights
    /\ fn_in.category = "food"
    /\ CallWeight = 3
    /\ "shops" \in DOMAIN fn_in.coverage
    /\ fn_in.coverage["shops"].status = "empty"
    /\ fn_in.overpass_status = "ok"
    /\ fn_out.as_empty.total = fn_out.as_ok.total
    /\ fn_out.as_empty.components.signal_confidence = 85
    /\ fn_out.as_empty.total < 100

\* C22: for any category appearing in the coverage map, not only the five
\* important ones, and any two coverage maps that differ only in that
\* category's status being error instead of ok, the confidence for the error
\* map is strictly lower than for the ok map.
C22_ErrorStrictlyLower ==
    fn_out.fn = "calculate_confidence" =>
        fn_out.as_error.total < fn_out.as_ok.total

\* what the code keeps of C22: an error lowers the confidence, by 6, exactly
\* for the five categories of the important_categories default; for any other
\* category the error map and the ok map get the same confidence
C22_Observed ==
    fn_out.fn = "calculate_confidence" =>
        IF fn_in.category \in Range(IMPORTANT_CATEGORIES)
        THEN fn_out.as_error.total = fn_out.as_ok.total - 6
        ELSE fn_out.as_error = fn_out.as_ok

\* food is the only category of the map and the provider answered: the map
\* with food in error and the map with food ok both get confidence 100
C22_Reached ==
    /\ fn_out.fn = "calculate_confidence"
    /\ DOMAIN fn_in.coverage = {"food"}
    /\ fn_in.category = "food"
    /\ fn_in.overpass_status = "ok"
    /\ fn_in.profile_weights = NoDict
    /\ fn_out.as_error.total = 100
    /\ fn_out.as_ok.total = 100

\* the POIs kept for a category of the report call
KeptCount(cat) == Len(DictGet(fn_in.pois_by_category, cat, << >>))

\* the category of the report call was queried
WasQueried(cat) == cat \in DOMAIN fn_in.pois_by_category

\* the provider failed for a category of the report call: errors are listed
\* for it, or the base provider failed on a query for it
ProviderFailed(cat) ==
    \/ DictGet(fn_in.provider_errors_by_category, cat, << >>) # << >>
    \/ fn_in.overpass_status = "error" /\ WasQueried(cat)

\* C23: build_data_quality_report assigns each category exactly one status:
\* error iff the provider failed for it and 0 POIs were kept; otherwise ok
\* iff >= 3 kept, partial iff 1-2 kept, empty iff 0 kept and the category was
\* queried with no provider failure, no_query iff the category is only known
\* from the radius map and was never queried; a queried category with 0 POIs
\* and a healthy provider is empty, never error, and appears in
\* empty_categories and not in error_categories.
C23_StatusPerCategory ==
    fn_out.fn = "build_data_quality_report" =>
        /\ DOMAIN fn_out.report.coverage = DOMAIN fn_in.pois_by_category \cup DOMAIN fn_in.radii
        /\ \A cat \in DOMAIN fn_out.report.coverage :
              /\ fn_out.report.coverage[cat].status \in {"error", "ok", "partial", "empty", "no_query"}
              /\ fn_out.report.coverage[cat].status = "error"
                    <=> (ProviderFailed(cat) /\ KeptCount(cat) = 0)
              /\ fn_out.report.coverage[cat].status # "error" =>
                    /\ fn_out.report.coverage[cat].status = "ok" <=> KeptCount(cat) >= 3
                    /\ fn_out.report.coverage[cat].status = "partial" <=> KeptCount(cat) \in 1..2
                    /\ fn_out.report.coverage[cat].status = "empty"
                          <=> (KeptCount(cat) = 0 /\ WasQueried(cat) /\ ~ProviderFailed(cat))
                    /\ fn_out.report.coverage[cat].status = "no_query"
                          <=> (~WasQueried(cat) /\ cat \in DOMAIN fn_in.radii)
              /\ (WasQueried(cat) /\ KeptCount(cat) = 0 /\ ~ProviderFailed(cat)) =>
                    /\ fn_out.report.coverage[cat].status = "empty"
                    /\ cat \in Range(fn_out.report.empty_categories)
                    /\ cat \notin Range(fn_out.report.error_categories)
              /\ cat \in Range(fn_out.report.empty_categories)
                    <=> fn_out.report.coverage[cat].status = "empty"
              /\ cat \in Range(fn_out.report.error_categories)
                    <=> fn_out.report.coverage[cat].status = "error"

\* C23 happens: one report holds all five statuses; the provider answered,
\* shops kept 3 POIs, roads 2, food was queried and kept nothing, health was
\* never queried, and leisure was never queried but has errors listed
C23_Witness ==
    /\ fn_out.fn = "build_data_quality_report"
    /\ fn_in.overpass_status = "ok"
    /\ DOMAIN fn_in.pois_by_category = {"shops", "food", "roads"}
    /\ KeptCount("shops") = 3
    /\ KeptCount("roads") = 2
    /\ KeptCount("food") = 0
    /\ fn_out.report.coverage["shops"].status = "ok"
    /\ fn_out.report.coverage["roads"].status = "partial"
    /\ fn_out.report.coverage["food"].status = "empty"
    /\ fn_out.report.coverage["health"].status = "no_query"
    /\ fn_out.report.coverage["leisure"].status = "error"
    /\ fn_out.report.empty_categories = << "food" >>
    /\ fn_out.report.error_categories = << "leisure" >>

\* the classification score of a category of a POI, 0 when it has none
ClassificationScore(poi, c) == DictGet(poi.category_scores, c, 0)

\* C24: for every POI that carries classification scores, in the classifier's
\* output and after any merge-engine mutation, a secondary category is
\* present only if its classification score is >= 0.7 x the primary
\* category's score, and the primary category is a highest-scoring category.
C24_SecondaryByRatio ==
    \A id \in DOMAIN poi_heap :
        DOMAIN poi_heap[id].category_scores # {} =>
            /\ \A c \in DOMAIN poi_heap[id].category_scores :
                  ClassificationScore(poi_heap[id], poi_heap[id].primary_category)
                      >= ClassificationScore(poi_heap[id], c)
            /\ \A c \in poi_heap[id].secondary_categories :
                  10 * ClassificationScore(poi_heap[id], c)
                      >= SECONDARY_SCORE_RATIO10
                            * ClassificationScore(poi_heap[id], poi_heap[id].primary_category)

\* what the code keeps of C24: the primary category of a POI with
\* classification scores is always a highest-scoring one, and a secondary
\* category below 0.7 x the primary's score is one without a classification
\* score that the enrichment took from the commercial place types
C24_Observed ==
    \A id \in DOMAIN poi_heap :
        DOMAIN poi_heap[id].category_scores # {} =>
            /\ \A c \in DOMAIN poi_heap[id].category_scores :
                  ClassificationScore(poi_heap[id], poi_heap[id].primary_category)
                      >= ClassificationScore(poi_heap[id], c)
            /\ \A c \in poi_heap[id].secondary_categories :
                  \/ 10 * ClassificationScore(poi_heap[id], c)
                        >= SECONDARY_SCORE_RATIO10
                              * ClassificationScore(poi_heap[id], poi_heap[id].primary_category)
                  \/ /\ c \notin DOMAIN poi_heap[id].category_scores
                     /\ tag_heap[poi_heap[id].tags].enriched
                     /\ c \in Range(google_types_to_secondary(tag_heap[poi_heap[id].tags].types))

\* the enrichment of the open-map kiosk "Kantor" (shops 1.0, finance 1.0) by
\* the place g3 of types cafe and bank left it with the secondary category
\* food, for which it has no classification score
C24_Reached ==
    /\ pc = "dedupe"
    /\ << "n3", "shops" >> \in DOMAIN poi_heap
    /\ poi_heap[<< "n3", "shops" >>].primary_category = "shops"
    /\ poi_heap[<< "n3", "shops" >>].category_scores = [shops |-> 10, finance |-> 10]
    /\ poi_heap[<< "n3", "shops" >>].secondary_categories = {"food", "finance"}
    /\ poi_heap[<< "n3", "shops" >>].place_id = "g3"

(***************************************************************************)
(*            PART V  -  THE PROFILE REGISTRY AND ITS ENGINES              *)
(***************************************************************************)

\* the engines one process creates in a run of the model
MaxEngines == 2

\* profiles.py get_profile: the registry object of the lower-cased key, the
\* default profile for an unknown key
get_profile(profile_key) ==
    IF Lower(profile_key) \in ProfileKeys THEN RegistryId(Lower(profile_key))
    ELSE RegistryId(DEFAULT_PROFILE_KEY)

\* the loop of services.py 210-213 and profile_engine.py 791-794: an override
\* is written only for a category the dict already holds
ApplyOverrides(effective_radius_m, radius_overrides) ==
    [c \in DOMAIN effective_radius_m |->
        IF c \in DOMAIN radius_overrides THEN radius_overrides[c]
        ELSE effective_radius_m[c]]

\* a factory that writes the overrides into profile.radius_m itself instead of
\* into a copy of it
create_scoring_engine_in_place(profiles, dicts, serial, profile_key, radius_overrides) ==
    LET profile == get_profile(profile_key)
    IN IF radius_overrides = NoDict
       THEN [profiles |-> profiles, dicts |-> dicts, profile |-> profile]
       ELSE [profiles |-> profiles @@ (<< "derived", serial >> :> profiles[profile]),
             dicts |-> [dicts EXCEPT ![profiles[profile].radius_m] =
                           ApplyOverrides(@, radius_overrides)],
             profile |-> << "derived", serial >>]

\* profile_engine.py create_scoring_engine on the heap (profiles, dicts);
\* serial names the objects this call allocates.  dict(profile.radius_m) is a
\* new dict; dataclasses.replace builds a new ProfileConfig whose other fields
\* hold the same objects as the registry profile.  None and {} are falsy: the
\* engine then holds the registry object itself.
create_scoring_engine(profiles, dicts, serial, profile_key, radius_overrides) ==
    LET profile == get_profile(profile_key)
        derived == << "derived", serial >>
    IN IF radius_overrides = NoDict
       THEN [profiles |-> profiles, dicts |-> dicts, profile |-> profile]
       ELSE [profiles |-> profiles @@
                 (derived :> [profiles[profile] EXCEPT
                                 !.radius_m = FieldId(derived, "radius_m")]),
             dicts |-> dicts @@
                 (FieldId(derived, "radius_m") :>
                     ApplyOverrides(dicts[profiles[profile].radius_m],
                                    radius_overrides)),
             profile |-> derived]

\* the profile keys and the radius overrides callers send
EngineKeys == {"urban", "FAMILY", "quiet_green", "hermit"}

OverrideInputs ==
    {NoDict, [shops |-> 800], [shops |-> 800, roads |-> 300],
     [education |-> 500, nature_place |-> 1500]}

\* the largest value of a dict of numbers
MaxValue(d) == CHOOSE m \in {d[k] : k \in DOMAIN d} : \A k \in DOMAIN d : d[k] <= m

\* a caller (rescore_service.py line 110, services.py line 303) creates an engine
CreateEngine ==
    /\ Len(engines) < MaxEngines
    /\ \E profile_key \in EngineKeys, radius_overrides \in OverrideInputs :
          LET made == create_scoring_engine(profile_heap, dict_heap,
                                            Len(engines) + 1, profile_key,
                                            radius_overrides)
          IN /\ profile_heap' = made.profiles
             /\ dict_heap' = made.dicts
             /\ engines' = Append(engines,
                                  [by |-> "create_scoring_engine",
                                   profile_key |-> profile_key,
                                   radius_overrides |-> radius_overrides,
                                   profile |-> made.profile,
                                   fetch_radius |-> NoNum])
    /\ UNCHANGED << scoreVars, hybridVars, rescoreVars >>

\* services.py analyze_location_stream, lines 204-217 and 303: the request
\* copies the radii of its profile into a local dict, applies the overrides to
\* the copy, derives the fetch radius from it and creates its engine
Analyze ==
    /\ Len(engines) < MaxEngines
    /\ \E profile_key \in EngineKeys, radius_overrides \in OverrideInputs, radius \in {500, 2000} :
          LET profile == get_profile(profile_key)
              local == << "request", Len(engines) + 1, "effective_radius_m" >>
              effective_radius_m ==
                  ApplyOverrides(dict_heap[profile_heap[profile].radius_m],
                                 radius_overrides)
              made == create_scoring_engine(profile_heap,
                                            dict_heap @@ (local :> effective_radius_m),
                                            Len(engines) + 1, profile_key,
                                            radius_overrides)
          IN /\ profile_heap' = made.profiles
             /\ dict_heap' = made.dicts
             /\ engines' = Append(engines,
                                  [by |-> "analyze_location_stream",
                                   profile_key |-> profile_key,
                                   radius_overrides |-> radius_overrides,
                                   profile |-> made.profile,
                                   fetch_radius |->
                                       Max(radius, MaxValue(made.dicts[local]))])
    /\ UNCHANGED << scoreVars, hybridVars, rescoreVars >>

InitRegistry ==
    /\ RegistryLoaded
    /\ NoRescore
    /\ score_pc = "idle"
    /\ scoring_result = NoResult
    /\ verdict_out = NoVerdict
    /\ fn_in = NoCall
    /\ fn_out = NoCall
    /\ HybridIdle

NextRegistry == CreateEngine \/ Analyze

SpecRegistry == InitRegistry /\ [][NextRegistry]_vars

\* the profile an engine holds, and the registry profile of the same key
EngineProfile(i) == ProfileAt(profile_heap, dict_heap, engines[i].profile)

\* C25: after any sequence of create_scoring_engine calls and analyses with
\* radius overrides every ProfileConfig of PROFILE_REGISTRY has the weights,
\* radius_m, critical_caps and thresholds it had at start-up; an override
\* yields a derived copy (another object with another radius_m dict) whose
\* radius_m differs from the registry profile's only in the overridden
\* categories that the profile already defines.
C25_RegistryNeverMutated ==
    /\ \A k \in ProfileKeys :
          /\ RegistryId(k) \in DOMAIN profile_heap
          /\ ProfileAt(profile_heap, dict_heap, RegistryId(k)) = PROFILE_REGISTRY[k]
    /\ \A i \in 1..Len(engines) :
          LET e == engines[i]
              base == PROFILE_REGISTRY[EngineProfile(i).key]
          IN /\ EngineProfile(i).weights = base.weights
             /\ EngineProfile(i).critical_caps = base.critical_caps
             /\ EngineProfile(i).thresholds = base.thresholds
             /\ DOMAIN EngineProfile(i).radius_m = DOMAIN base.radius_m
             /\ \A c \in DOMAIN base.radius_m :
                   EngineProfile(i).radius_m[c] =
                       IF c \in DOMAIN e.radius_overrides
                       THEN e.radius_overrides[c] ELSE base.radius_m[c]
             /\ e.radius_overrides # NoDict =>
                   /\ e.profile \notin {RegistryId(k) : k \in ProfileKeys}
                   /\ profile_heap[e.profile].radius_m \notin
                         {FieldId(RegistryId(k), "radius_m") : k \in ProfileKeys}

\* C25 happens: an analysis of the family profile with the overrides
\* shops = 800 and roads = 300 got a derived profile with shops at 800 m and no
\* roads radius, a later engine without overrides holds the registry object,
\* and the registry's family profile still has shops at 700 m
C25_Witness ==
    /\ Len(engines) = 2
    /\ engines[1].by = "analyze_location_stream"
    /\ engines[1].profile_key = "FAMILY"
    /\ engines[1].radius_overrides = [shops |-> 800, roads |-> 300]
    /\ engines[1].profile = << "derived", 1 >>
    /\ EngineProfile(1).radius_m["shops"] = 800
    /\ "roads" \notin DOMAIN EngineProfile(1).radius_m
    /\ engines[1].fetch_radius = 1500
    /\ engines[2].by = "create_scoring_engine"
    /\ engines[2].radius_overrides = NoDict
    /\ engines[2].profile = RegistryId("family")
    /\ EngineProfile(2).radius_m["shops"] = 700

\* C26: every place type listed in FALLBACK_TYPES, for every category, is a
\* member of VALID_GOOGLE_TYPES, so the import-time validation
\* _validate_fallback_types completes without raising ValueError.
C26_FallbackTypesValid ==
    fn_out.fn = "_validate_fallback_types" =>
        /\ \A cat \in DOMAIN FALLBACK_TYPES :
              \A i \in 1..Len(FALLBACK_TYPES[cat]) :
                 FALLBACK_TYPES[cat][i] \in VALID_GOOGLE_TYPES
        /\ fn_out.raised = NoException

\* what the code does instead of C26: the only listed type that is not a valid
\* Google type is 'health' of the category health, and the validation raises
\* ValueError for it
C26_Observed ==
    fn_out.fn = "_validate_fallback_types" =>
        /\ \A cat \in DOMAIN FALLBACK_TYPES :
              \A i \in 1..Len(FALLBACK_TYPES[cat]) :
                 FALLBACK_TYPES[cat][i] \notin VALID_GOOGLE_TYPES
                    <=> (cat = "health" /\ FALLBACK_TYPES[cat][i] = "health")
        /\ fn_out.raised = [exception |-> "ValueError", cat |-> "health", t |-> "health"]

\* the import ran the validation and it raised
C26_Reached ==
    /\ fn_out.fn = "_validate_fallback_types"
    /\ fn_out.raised.exception = "ValueError"
    /\ fn_out.raised.t \notin VALID_GOOGLE_TYPES

\* the strengths entry for a quiet neighbourhood
QuietStrength == [kind |-> "quiet_neighbourhood", category |-> "noise"]

\* a road of one of the types lies within the limit of the point, distance 0
\* included
RoadWithin(roads, subcats, limit) ==
    \E i \in 1..Len(roads) :
        roads[i].subcategory \in subcats /\ roads[i].distance_m <= limit

\* some road gate of the claim trips for a road list
RoadGateTrips(roads) ==
    \/ RoadWithin(roads, {"primary"}, 250)
    \/ RoadWithin(roads, {"rail", "tram"}, 200)
    \/ RoadWithin(roads, {"secondary"}, 300)
    \/ RoadWithin(roads, {"motorway", "trunk"}, 600)
    \/ Len(roads) >= 10

\* C27: the quiet-neighbourhood strength is emitted only if quiet_score >= 70
\* and no road gate trips: whenever the road POIs include a primary road at
\* distance <= 250 m, a rail or tram line <= 200 m, a secondary road <= 300 m,
\* a motorway or trunk road <= 600 m (distance 0 included in each case), or at
\* least 10 road POIs in total, the strengths list of the ScoringResult
\* contains no quiet-neighbourhood entry.
C27_QuietStrengthGated ==
    fn_out.fn = "calculate_highlights" =>
        (SeqContains(fn_out.strengths, QuietStrength) =>
            fn_in.quiet_score >= 70 /\ ~RoadGateTrips(fn_in.roads))

\* the nearest road of a group lies within the limit and not at the point
\* itself
NearestWithin(roads, subcats, limit) ==
    /\ RoadWithin(roads, subcats, limit)
    /\ ~RoadWithin(roads, subcats, 0)

\* what the code does instead of C27: a gate trips only when the nearest road
\* of its group is at a non-zero distance within the limit, and the entry is
\* emitted exactly when quiet_score >= 70, no such gate trips and fewer than
\* four categories precede it in the list
C27_Observed ==
    fn_out.fn = "calculate_highlights" =>
        (SeqContains(fn_out.strengths, QuietStrength) <=>
            /\ fn_in.quiet_score >= 70
            /\ ~NearestWithin(fn_in.roads, {"primary"}, 250)
            /\ ~NearestWithin(fn_in.roads, {"rail", "tram"}, 200)
            /\ ~NearestWithin(fn_in.roads, {"secondary"}, 300)
            /\ ~NearestWithin(fn_in.roads, {"motorway", "trunk"}, 600)
            /\ Len(fn_in.roads) < 10
            /\ Cardinality({c \in DOMAIN fn_out.category_scores :
                               c # "noise" /\ fn_out.category_scores[c] >= 7000}) < 4)

\* a primary road at distance 0 and a quiet score of 100: the strengths hold
\* the quiet-neighbourhood entry
C27_Reached ==
    /\ fn_out.fn = "calculate_highlights"
    /\ fn_in.roads = << [subcategory |-> "primary", distance_m |-> 0] >>
    /\ fn_in.quiet_score = 100
    /\ fn_out.roads_debug.nearest_primary_m = 0
    /\ SeqContains(fn_out.strengths, QuietStrength)

(***************************************************************************)
(*                 PART VI  -  RESCORING A STORED REPORT                   *)
(***************************************************************************)

\* the rescore requests one run of the model sends
MaxRescoreRequests == 3

\* stored reports: a fresh row (rescore_count default 0) scored with the
\* default profile, with the default limit or a limit of 1, with or without
\* report_data.neighborhood.poi_stats; scoring_data is identified by the
\* profile that produced it
StoredAnalyses ==
    [public_id : {"r1"}, profile_key : {DEFAULT_PROFILE_KEY},
     scoring_data : {[profile_key |-> DEFAULT_PROFILE_KEY]},
     rescore_count : {0}, rescore_limit : {1, 3}, has_poi_stats : BOOLEAN]

\* request.data.get('profile_key'): a key or nothing
RequestedKeys == {"urban", "family", None}

NoResponse == [status |-> NoNum]

\* RescoreReportView.post up to the save of RescoreService.rescore (views.py
\* 305-325, rescore_service.py 57-167): the view loads the row into its own
\* LocationAnalysis object; the service tests that object and computes the
\* new scoring, verdict and insights
RescoreStart(profile_key, loaded) ==
    IF profile_key = None
    THEN [pc |-> "done", profile_key |-> profile_key, analysis |-> loaded,
          response |-> [status |-> 400, error |-> "profile_key missing"]]
    ELSE IF loaded.rescore_count >= loaded.rescore_limit
    THEN [pc |-> "done", profile_key |-> profile_key, analysis |-> loaded,
          response |-> [status |-> 429, error |-> "RescoreLimitExceeded"]]
    ELSE IF profile_key = OrStr(loaded.profile_key, "family")
    THEN [pc |-> "done", profile_key |-> profile_key, analysis |-> loaded,
          response |-> [status |-> 400, error |-> "ValueError"]]
    ELSE IF ~loaded.has_poi_stats
    THEN [pc |-> "done", profile_key |-> profile_key, analysis |-> loaded,
          response |-> [status |-> 422, error |-> "RescoreDataMissing"]]
    ELSE [pc |-> "scored", profile_key |-> profile_key, analysis |-> loaded,
          response |-> NoResponse]

\* rescore_service.py 169-187: the fields the request assigns on its object
Rescored(loaded, new_profile_key) ==
    [loaded EXCEPT !.profile_key = new_profile_key,
                   !.scoring_data = [profile_key |-> get_profile(new_profile_key)[1]],
                   !.rescore_count = @ + 1]

\* analysis.save(update_fields=[...]): the listed fields of the object
\* overwrite those of the row
Saved(row, object) ==
    [row EXCEPT !.profile_key = object.profile_key,
                !.scoring_data = object.scoring_data,
                !.rescore_count = object.rescore_count]

\* a request arrives: get_object_or_404 and the checks of rescore()
RescoreBegin ==
    /\ Len(requests) < MaxRescoreRequests
    /\ \E profile_key \in RequestedKeys :
          requests' = Append(requests, RescoreStart(profile_key, analysis))
    /\ UNCHANGED analysis
    /\ UNCHANGED << scoreVars, hybridVars, registryVars >>

\* a request that passed the checks writes its result and answers
RescoreSave ==
    /\ \E i \in 1..Len(requests) :
          /\ requests[i].pc = "scored"
          /\ LET object == Rescored(requests[i].analysis, requests[i].profile_key)
             IN /\ analysis' = Saved(analysis, object)
                /\ requests' =
                      [requests EXCEPT ![i] =
                          [pc |-> "done", profile_key |-> @.profile_key,
                           analysis |-> object,
                           response |-> [status |-> 200,
                                         rescore_count |-> object.rescore_count,
                                         rescore_limit |-> object.rescore_limit]]]
    /\ UNCHANGED << scoreVars, hybridVars, registryVars >>

InitRescore ==
    /\ RegistryLoaded
    /\ analysis \in StoredAnalyses
    /\ requests = << >>
    /\ score_pc = "idle"
    /\ scoring_result = NoResult
    /\ verdict_out = NoVerdict
    /\ fn_in = NoCall
    /\ fn_out = NoCall
    /\ HybridIdle

NextRescore == RescoreBegin \/ RescoreSave

SpecRescore == InitRescore /\ [][NextRescore]_vars

\* the requests that succeeded, and those that were rejected
Succeeded == {i \in 1..Len(requests) : requests[i].response.status = 200}

Rejected == {i \in 1..Len(requests) : requests[i].response.status \in {400, 422, 429}}

\* a request is rejected in the step
RejectedNow ==
    \E i \in 1..Len(requests') :
        /\ requests'[i].response.status \in {400, 422, 429}
        /\ i > Len(requests) \/ requests[i].response = NoResponse

\* C28: for any interleaving of rescore requests on the same stored analysis
\* (sequential or concurrent) the number of rescores that succeed never
\* exceeds the analysis's rescore_limit, and a request arriving when
\* rescore_count >= rescore_limit is rejected with RescoreLimitExceeded.  (The
\* third part of the claim, on what a rejected request leaves unchanged, is a
\* property of steps: C28_RejectedUnchanged.)
C28_RescoreLimitHolds ==
    /\ Cardinality(Succeeded) <= analysis.rescore_limit
    /\ \A i \in 1..Len(requests) \ Succeeded :
          (requests[i].profile_key # None
              /\ requests[i].analysis.rescore_count >= requests[i].analysis.rescore_limit)
             => requests[i].response.status = 429

\* C28, third part: a rejected request (limit reached, same profile as
\* current, or missing POI data) leaves profile_key, scoring data and
\* rescore_count of the row unchanged
C28_RejectedUnchanged == [][RejectedNow => analysis' = analysis]_vars

\* what the code keeps of C28: the stored rescore_count never exceeds the
\* limit, every request that has not succeeded is answered according to the
\* row it loaded, and a request that succeeds loaded a count below the limit
\* and stores that count plus one
C28_Observed ==
    /\ analysis.rescore_count <= analysis.rescore_limit
    /\ \A i \in 1..Len(requests) \ Succeeded :
          requests[i] = RescoreStart(requests[i].profile_key, requests[i].analysis)
    /\ \A i \in Succeeded :
          /\ requests[i].analysis.rescore_count <= analysis.rescore_limit
          /\ requests[i].response.rescore_count = requests[i].analysis.rescore_count
          /\ analysis.rescore_count >= 1

\* two requests loaded the row with rescore_count 0 and limit 1 before either
\* saved; both succeeded, and the row counts one rescore
C28_Reached ==
    /\ analysis.rescore_limit = 1
    /\ analysis.rescore_count = 1
    /\ Cardinality(Succeeded) = 2

\* C29: an unmet must-have is never reported as fully recommended: whenever
\* some critical-cap category of the profile scores below its cap threshold,
\* the Verdict generated from the ScoringResult has a level other than
\* `recommended`, also when the total was already at or below the cap so that
\* the cap did not lower it.
C29_UnmetNeverRecommended ==
    score_pc = "judged" =>
        (UnmetRules # {} => verdict_out.level # "recommended")

\* what the code does instead of C29: the verdict is lowered from
\* `recommended` exactly when a cap lowered the total, and the total of a
\* result with an unmet rule is at most the cap of the rule
C29_Observed ==
    score_pc = "judged" =>
        /\ verdict_out.level =
              IF scoring_result.critical_caps_applied # << >>
                    /\ scoring_result.verdict = "recommended"
              THEN "conditional" ELSE scoring_result.verdict
        /\ (UnmetRules # {} /\ verdict_out.level = "recommended") =>
              /\ scoring_result.critical_caps_applied = << >>
              /\ \A rule \in UnmetRules :
                    scoring_result.total_score <= rule.cap * scoring_result.scale

\* a must-have is unmet, no cap lowered the total, and the verdict is
\* `recommended`
C29_Reached ==
    /\ score_pc = "judged"
    /\ UnmetRules # {}
    /\ scoring_result.critical_caps_applied = << >>
    /\ verdict_out.level = "recommended"

\* C30: the two verdicts of one analysis agree: for every ScoringResult r
\* produced by ProfileScoringEngine.calculate with profile p, the string
\* r.verdict equals the level of the Verdict returned by
\* ProfileVerdictGenerator.generate(r, p), including when critical caps were
\* applied.
C30_VerdictsAgree ==
    score_pc = "judged" => scoring_result.verdict = verdict_out.level

\* what the code does instead of C30: the two agree unless a cap was applied
\* and the capped total still reaches the `recommended` threshold; then
\* r.verdict is `recommended` and the Verdict is `conditional`
C30_Observed ==
    score_pc = "judged" =>
        /\ scoring_result.verdict # verdict_out.level =>
              /\ scoring_result.critical_caps_applied # << >>
              /\ scoring_result.verdict = "recommended"
              /\ verdict_out.level = "conditional"
        /\ scoring_result.critical_caps_applied = << >> =>
              scoring_result.verdict = verdict_out.level

\* a cap was applied, r.verdict says `recommended`, the Verdict `conditional`
C30_Reached ==
    /\ score_pc = "judged"
    /\ scoring_result.critical_caps_applied # << >>
    /\ scoring_result.verdict = "recommended"
    /\ verdict_out.level = "conditional"

=============================================================================
